---- MODULE Spec2Model ----
(***************************************************************************)
(* Model of the House Expansion Lab engine: Huntington-Hill apportionment  *)
(* (lib/apportionment.ts), the ranked-choice counter (lib/pr/stv.ts) and   *)
(* the seeded ballot generator (lib/pr/ballotGenerator.ts), followed by   *)
(* the seat overlays (lib/overlays.ts), the Sainte-Lague and top-up        *)
(* allocations (lib/pr/topup.ts), the district planner                     *)
(* (lib/pr/districtPlan.ts), the hybrid orchestrator (lib/pr/simulate.ts)  *)
(* and the historical Electoral College replay (lib/elections.ts).         *)
(*                                                                         *)
(* Numbers.  JavaScript numbers are IEEE doubles.  The model computes with *)
(* exact values: a priority P/sqrt(n(n+1)) is kept as the pair (P, n) and  *)
(* compared by cross-multiplying squares; ballot weights and shares are    *)
(* reduced fractions.  Within the bounds below two priorities are equal as *)
(* reals only when they have the same P and the same n (no two of          *)
(* 2, 6, 12, 20, 30, 42, 56 have a rational square as ratio), and then the *)
(* doubles are bit-identical, so every comparison agrees with the code's.  *)
(*                                                                         *)
(* The generator's rng() returns w / 2^32 for a 32-bit word w, kept as two *)
(* 16-bit halves.  rng() * m and its floor are exact in doubles; a roll is *)
(* compared with a cumulative share k/T (T <= 6) exactly: the double sum   *)
(* is k/T itself when k/T is a multiple of 2^-32, and otherwise lies       *)
(* within 2^-52 of k/T, while no multiple of 2^-32 comes that close.       *)
(***************************************************************************)
EXTENDS Integers, Sequences, FiniteSets, TLC

\* ------------------------------------------------------------------ bounds
MaxStates == 3      \* states 1..MaxStates; numeric order = alphabetical order of the codes
MaxPop == 3         \* populations 1..MaxPop
MaxExtra == 3       \* total seats range over 0..stateCount+MaxExtra
MaxSeats == 2       \* seats of a count: 1..MaxSeats in a direct call, 0..MaxSeats generated
MaxBallots == 2     \* at most MaxBallots ballots, cast directly or generated
MaxCands == 3       \* at most MaxCands candidates in a direct call of runSTV
MaxTotal == 4       \* seat totals 0..MaxTotal handed to the allocations
MaxTopUp == 2       \* top-up budgets 0..MaxTopUp
MaxCached == 1        \* a new invocation of runHybridPRByState starts with at most this many cached results
MaxPlanSeats == 11  \* seat totals 0..MaxPlanSeats handed to buildDistrictPlan
MaxEcVotes == 5     \* a jurisdiction of a replayed map has 0..MaxEcVotes electoral votes
DistrictSeatValues == {0, 1, 2}  \* the district seats a party may hold before top-up
ShareDen == 3       \* shares are the fractions k/d with d in 1..ShareDen
BallotWeights == {1, 2, 3}  \* the weights of the ballots handed to a direct call
\* settings.minDistrictSeats, maxDistrictSeats and districtSeatTarget as passed:
\* values below, inside and above the ranges they are clamped to.
\* values of settings.minDistrictSeats, maxDistrictSeats and districtSeatTarget
\* as <<numerator, denominator>>: the type is number, so halves are included
MinSeatValues == {<<0, 1>>, <<1, 1>>, <<2, 1>>, <<5, 2>>, <<3, 1>>, <<11, 1>>}
MaxSeatValues == {<<0, 1>>, <<2, 1>>, <<3, 1>>, <<7, 2>>, <<7, 1>>, <<13, 1>>}
TargetSeatValues == {<<0, 1>>, <<2, 1>>, <<5, 1>>, <<8, 1>>}
StateCodes == {1, 2}        \* jurisdiction codes
Parties == {1, 2, 3}        \* party ids, numbered in their alphabetical order
ShareValues == {0, 1, 2}    \* the input share of a party (1 is 100%)
\* args.seed as the 32-bit word seed >>> 0 leaves in t: 5 and 12 (the seeds of
\* the test suite), and 2463401483 = 2^32 - 0x6d2b79f5.
Seeds == {<<0, 5>>, <<0, 12>>, <<37588, 34315>>}

\* ------------------------------------------------------------- state
VARIABLES
  apPc,        \* position in apportion: "idle", "push", "award", "done", "error"
  apStates,    \* Object.keys(populationsByState): the states in insertion order
  apPop,       \* populationsByState
  apTotal,     \* totalSeats
  apSeats,     \* seats (the local map being built)
  apHeap,      \* MaxHeap.data
  apI,         \* index of the forEach / for loop in progress
  apResult,    \* the value returned by apportion, NoResult before a return or after a throw
  apAward      \* observation: the last award (state awarded, states tied with it in the heap)

apVars == <<apPc, apStates, apPop, apTotal, apSeats, apHeap, apI, apResult, apAward>>

VARIABLES
  stvPc,         \* "idle", "cast" (caller), "loop" (at the while condition), "done" (returned)
  stvSeats,      \* args.seats
  stvCandidates, \* args.candidates: sequence of [id, partyId]
  stvBallots,    \* args.ballots: the caller's ballot objects [ranking, weight]
  stvQuota,      \* quota
  stvActive,     \* active
  stvElected,    \* elected
  stvWeighted,   \* weightedBallots: [ranking, weight, index]
  stvResult,     \* the value returned by runSTV
  stvRounds,     \* observation: iterations of the while loop entered so far
  stvRound,      \* observation: what the last iteration did
  stvEliminated, \* observation: the candidates eliminated so far
  stvRun,        \* observation: 1 during the first call, 2 during the repeated call
  stvFirst       \* observation: the caller's ballots before, and the result of, the first call

stvVars == <<stvPc, stvSeats, stvCandidates, stvBallots, stvQuota, stvActive, stvElected,
             stvWeighted, stvResult, stvRounds, stvRound, stvEliminated, stvRun, stvFirst>>

VARIABLES
  genPc,         \* position in generateRankedBallots: "idle", "loop", "done" (returned)
  genPartyIds,   \* args.partyIds: the party roster in the caller's order
  genShares,     \* args.partyShares
  genSeats,      \* args.seats
  genCount,      \* args.ballotCount
  genSeed,       \* args.seed
  genNormalized, \* normalized
  genCandidates, \* candidates
  genT,          \* the state t of the closure rng
  genBallots     \* ballots: sequence of [ranking, weight]

genVars == <<genPc, genPartyIds, genShares, genSeats, genCount, genSeed, genNormalized,
             genCandidates, genT, genBallots>>

VARIABLES
  ovPc,         \* position in a Hamilton allocation: "idle", "loop", "done"
  ovFn,         \* which function is running: "two" or "three"
  ovTotal,      \* totalSeats
  ovShares,     \* the share arguments, in argument order
  ovRaw,        \* observation: the raw (fractional) entitlement of each party
  ovRemainders, \* remainders: the parties sorted by descending remainder
  ovSeats,      \* partyASeats / partyBSeats, or the seats object
  ovAllocated,  \* allocated
  ovIdx,        \* idx
  ovResult      \* the value returned

ovVars == <<ovPc, ovFn, ovTotal, ovShares, ovRaw, ovRemainders, ovSeats, ovAllocated,
            ovIdx, ovResult>>

VARIABLES
  slPc,         \* position in allocateSainteLague: "idle", "loop", "done", "error"
  slPartyIds,   \* partyIds
  slShares,     \* voteShares
  slTotal,      \* totalSeats
  slNormalized, \* normalized
  slSeats,      \* seats
  slI,          \* i
  slResult,     \* the value returned
  slRound       \* observation: the seats before the last award, and its winner

slVars == <<slPc, slPartyIds, slShares, slTotal, slNormalized, slSeats, slI, slResult,
            slRound>>

VARIABLES
  tuPc,        \* position in allocateTopUpSeats: "idle", "loop", "done", "error"
  tuPartyIds,  \* args.partyIds
  tuTotal,     \* args.totalSeats
  tuTopUpSeats, \* args.topUpSeats
  tuShares,    \* args.voteShares
  tuDistrict,  \* args.districtSeatsByParty
  tuIdeal,     \* ideal
  tuTopUp,     \* topUp
  tuI,         \* i
  tuResult,    \* the value returned
  tuRound      \* observation: the top-up seats before the last award, and its winner

tuVars == <<tuPc, tuPartyIds, tuTotal, tuTopUpSeats, tuShares, tuDistrict, tuIdeal,
            tuTopUp, tuI, tuResult, tuRound>>

VARIABLES
  dpPc,        \* position in buildDistrictPlan: "idle", "loop", "done"
  dpStateCode, \* stateCode
  dpTotal,     \* totalSeats
  dpSettings,  \* settings, as passed
  dpSafe,      \* safe: the clamped settings
  dpCount,     \* count (chooseDistrictSeatCounts)
  dpMaxCount,  \* maxCount
  dpBest,      \* best
  dpBestScore, \* bestScore
  dpTried,     \* observation: the counts tried, with the parts built and their score
  dpResult     \* the plan returned

dpVars == <<dpPc, dpStateCode, dpTotal, dpSettings, dpSafe, dpCount, dpMaxCount, dpBest, dpBestScore,
            dpTried, dpResult>>

VARIABLES
  hyPc,     \* position in runHybridPRByState: "idle", "map", "district", "error"
  hyArgs,   \* args
  hySafe,   \* safeSettings
  hyI,      \* number of states the map callback has returned for
  hyOut,    \* the results the callback has returned so far
  hyCur,    \* the locals of the callback that is running
  hyCache,  \* stateCache, which outlives the invocations
  hyCheck   \* observation: for the latest callback, the result it returned and
            \* the result computed from its arguments without reading the cache

hyVars == <<hyPc, hyArgs, hySafe, hyI, hyOut, hyCur, hyCache, hyCheck>>

VARIABLES
  ecPc,        \* position in computeHistoricalEcOutcomes: "idle", "years", "done"
  ecMetrics,   \* metricsByState: abbreviation -> ecVotes
  ecTotal,     \* ecTotal
  ecMajority,  \* majority
  ecOut        \* the outcomes the map callback has returned so far

ecVars == <<ecPc, ecMetrics, ecTotal, ecMajority, ecOut>>

VARIABLES
  nsPc,        \* position in a direct call of normalizeShares: "idle", "done"
  nsInput,     \* input
  nsPartyIds,  \* partyIds
  nsResult     \* the map returned

nsVars == <<nsPc, nsInput, nsPartyIds, nsResult>>

VARIABLES
  giPc,        \* position of a caller of gallagherIndex: "idle", "done"
  giVotes,     \* voteShares
  giPartyIds,  \* partyIds
  giSeats,     \* the two seatShares maps the caller compares
  giIndex      \* the index returned for each of them

giVars == <<giPc, giVotes, giPartyIds, giSeats, giIndex>>

\* The state of the components added after the generator.
laterVars == <<ovVars, slVars, tuVars, dpVars, hyVars, ecVars, nsVars, giVars>>

vars == <<apVars, stvVars, genVars, laterVars>>

NoResult == [returned |-> FALSE, seats |-> <<>>]
NoAward == [state |-> 0, tied |-> {}]

\* ------------------------------------------------------------- helpers
Range(s) == {s[i] : i \in DOMAIN s}

RECURSIVE SumOver(_, _)
SumOver(f, S) ==
  IF S = {} THEN 0
  ELSE LET x == CHOOSE y \in S : TRUE IN f[x] + SumOver(f, S \ {x})

\* All sequences listing each element of S once (the possible key orders of a map).
RECURSIVE Orderings(_)
Orderings(S) ==
  IF S = {} THEN {<<>>}
  ELSE UNION {{<<x>> \o t : t \in Orderings(S \ {x})} : x \in S}

Sign(x) == IF x > 0 THEN 1 ELSE IF x < 0 THEN -1 ELSE 0

\* ------------------------------------------------- apportionment.ts
\* computePriority: population / sqrt(seats * (seats + 1)), kept exactly.
computePriority(population, seats) == [p |-> population, n |-> seats]

\* Sign of a.priority - b.priority for non-negative populations.
PriorityDiff(a, b) ==
  Sign(a.p * a.p * (b.n * (b.n + 1)) - b.p * b.p * (a.n * (a.n + 1)))

\* b.state.localeCompare(a.state) on tie listed the other way round.
compareEntriesLaterFirst(a, b) ==
  IF PriorityDiff(a.priority, b.priority) = 0
  THEN Sign(a.state - b.state)
  ELSE PriorityDiff(a.priority, b.priority)

\* compareEntries: > 0 when a ranks above b in the max-heap.
compareEntries(a, b) ==
  IF PriorityDiff(a.priority, b.priority) = 0
  THEN Sign(b.state - a.state)
  ELSE PriorityDiff(a.priority, b.priority)

Swap(data, i, j) == [data EXCEPT ![i] = data[j], ![j] = data[i]]

\* MaxHeap.bubbleUp; positions are 1-based here, so the parent of k is k \div 2.
RECURSIVE bubbleUp(_, _)
bubbleUp(data, current) ==
  IF current <= 1 THEN data
  ELSE LET parent == current \div 2 IN
       IF compareEntries(data[current], data[parent]) <= 0 THEN data
       ELSE bubbleUp(Swap(data, current, parent), parent)

\* MaxHeap.bubbleDown; the children of k are 2k and 2k+1.
RECURSIVE bubbleDown(_, _)
bubbleDown(data, current) ==
  LET length == Len(data)
      left == 2 * current
      right == 2 * current + 1
      l1 == IF left <= length /\ compareEntries(data[left], data[current]) > 0
            THEN left ELSE current
      largest == IF right <= length /\ compareEntries(data[right], data[l1]) > 0
                 THEN right ELSE l1
  IN IF largest = current THEN data
     ELSE bubbleDown(Swap(data, current, largest), largest)

\* MaxHeap.push
heapPush(data, entry) == bubbleUp(Append(data, entry), Len(data) + 1)

\* MaxHeap.pop with the last entry put on top and left there.
heapPopRestUnsifted(data) ==
  LET last == data[Len(data)]
      rest == SubSeq(data, 1, Len(data) - 1)
  IN IF Len(rest) > 0 THEN [rest EXCEPT ![1] = last] ELSE rest

\* MaxHeap.pop on a non-empty heap: the data left after removing the top.
heapPopRest(data) ==
  LET last == data[Len(data)]
      rest == SubSeq(data, 1, Len(data) - 1)
  IN IF Len(rest) > 0 THEN bubbleDown([rest EXCEPT ![1] = last], 1) ELSE rest

\* apportion, lines 132-141: the seats map at 1 each, then the total check,
\* here without the check.
apportionCallUnchecked ==
  /\ apPc = "idle"
  /\ \E n \in 0..MaxStates :
       \E keys \in Orderings(1..n), pop \in [1..n -> 1..MaxPop], total \in 0..(n + MaxExtra) :
         /\ apStates' = keys
         /\ apPop' = pop
         /\ apTotal' = total
         /\ apSeats' = [s \in 1..n |-> 1]
         /\ apPc' = "push"
  /\ apI' = 0
  /\ UNCHANGED <<apHeap, apResult, apAward>>

\* apportion, lines 132-141: the seats map at 1 each, then the total check.
apportionCall ==
  /\ apPc = "idle"
  /\ \E n \in 0..MaxStates :
       \E keys \in Orderings(1..n), pop \in [1..n -> 1..MaxPop], total \in 0..(n + MaxExtra) :
         /\ apStates' = keys
         /\ apPop' = pop
         /\ apTotal' = total
         /\ apSeats' = [s \in 1..n |-> 1]
         /\ apPc' = IF total - Len(keys) < 0 THEN "error" ELSE "push"
  /\ apI' = 0
  /\ UNCHANGED <<apHeap, apResult, apAward>>

\* apportion, lines 144-147: one iteration of the forEach filling the heap.
apportionPush ==
  /\ apPc = "push"
  /\ IF apI < Len(apStates)
     THEN LET state == apStates[apI + 1] IN
          /\ apHeap' = heapPush(apHeap,
                 [state |-> state, priority |-> computePriority(apPop[state], apSeats[state])])
          /\ apI' = apI + 1
          /\ apPc' = "push"
     ELSE /\ apI' = 0
          /\ apPc' = "award"
          /\ UNCHANGED apHeap
  /\ UNCHANGED <<apStates, apPop, apTotal, apSeats, apResult, apAward>>

TiedWith(data, entry) ==
  {data[k].state : k \in {j \in DOMAIN data :
       /\ data[j].state # entry.state
       /\ PriorityDiff(data[j].priority, entry.priority) = 0}}

\* apportion, lines 149-158 with the popped entry never pushed back.
apportionAwardNoReinsert ==
  /\ apPc = "award"
  /\ apI < apTotal - Len(apStates)
  /\ IF Len(apHeap) = 0
     THEN /\ apPc' = "return"
          /\ UNCHANGED <<apSeats, apHeap, apI, apAward>>
     ELSE LET entry == apHeap[1] IN
          /\ apSeats' = [apSeats EXCEPT ![entry.state] = @ + 1]
          /\ apHeap' = heapPopRest(apHeap)
          /\ apAward' = [state |-> entry.state, tied |-> TiedWith(apHeap, entry)]
          /\ apI' = apI + 1
          /\ apPc' = "award"
  /\ UNCHANGED <<apStates, apPop, apTotal, apResult>>

\* apportion, lines 149-158 with line 152 setting the seats to 2 instead of
\* adding 1.
apportionAwardSetsTwo ==
  /\ apPc = "award"
  /\ apI < apTotal - Len(apStates)
  /\ IF Len(apHeap) = 0
     THEN /\ apPc' = "return"
          /\ UNCHANGED <<apSeats, apHeap, apI, apAward>>
     ELSE LET entry == apHeap[1]
              next == 2
          IN
          /\ apSeats' = [apSeats EXCEPT ![entry.state] = next]
          /\ apHeap' = heapPush(heapPopRest(apHeap),
                 [state |-> entry.state,
                  priority |-> computePriority(apPop[entry.state], next)])
          /\ apAward' = [state |-> entry.state, tied |-> TiedWith(apHeap, entry)]
          /\ apI' = apI + 1
          /\ apPc' = "award"
  /\ UNCHANGED <<apStates, apPop, apTotal, apResult>>

\* apportion, lines 149-158: one iteration of the award loop
\* (pop, break when the heap is empty, increment, push the next priority).
apportionAward ==
  /\ apPc = "award"
  /\ apI < apTotal - Len(apStates)
  /\ IF Len(apHeap) = 0
     THEN /\ apPc' = "return"
          /\ UNCHANGED <<apSeats, apHeap, apI, apAward>>
     ELSE LET entry == apHeap[1]
              next == apSeats[entry.state] + 1
          IN
          /\ apSeats' = [apSeats EXCEPT ![entry.state] = next]
          /\ apHeap' = heapPush(heapPopRest(apHeap),
                 [state |-> entry.state,
                  priority |-> computePriority(apPop[entry.state], next)])
          /\ apAward' = [state |-> entry.state, tied |-> TiedWith(apHeap, entry)]
          /\ apI' = apI + 1
          /\ apPc' = "award"
  /\ UNCHANGED <<apStates, apPop, apTotal, apResult>>

\* apportion, line 160: the loop is over (or was broken out of), return seats.
apportionReturn ==
  /\ \/ apPc = "return"
     \/ apPc = "award" /\ apI >= apTotal - Len(apStates)
  /\ apResult' = [returned |-> TRUE, seats |-> apSeats]
  /\ apPc' = "done"
  /\ UNCHANGED <<apStates, apPop, apTotal, apSeats, apHeap, apI, apAward>>

\* ------------------------------------------------- exact fractions
\* A JavaScript number that is a ratio of integers, kept in lowest terms.
RECURSIVE GCD(_, _)
GCD(a, b) == IF b = 0 THEN a ELSE GCD(b, a % b)

Frac(n, d) ==
  LET g == GCD(IF n < 0 THEN -n ELSE n, d)
  IN IF n = 0 THEN [n |-> 0, d |-> 1] ELSE [n |-> n \div g, d |-> d \div g]

FracInt(k) == [n |-> k, d |-> 1]
FracAdd(x, y) == Frac(x.n * y.d + y.n * x.d, x.d * y.d)
FracMul(x, y) == Frac(x.n * y.n, x.d * y.d)
FracDiv(x, y) == Frac(x.n * y.d, x.d * y.n)
FracCmp(x, y) == Sign(x.n * y.d - y.n * x.d)
FracFloor(x) == x.n \div x.d

\* ------------------------------------------------- pr/stv.ts
\* activeChoice returns null when the ballot is exhausted.
NoCandidate == 0

\* Candidate ids are `${partyId}-${i}`; with parties numbered in the alphabetical
\* order of their ids and i <= 9, localeCompare orders them as these numbers.
candidateId(partyId, i) == partyId * 10 + i

\* droopQuota, lines 290-291
droopQuota(validVotes, seats) ==
  FracFloor(FracDiv(validVotes, FracInt(seats + 1))) + 1

\* activeChoice, lines 294-298: the index the while loop leaves the ballot at.
RECURSIVE activeIndex(_, _)
activeIndex(ballot, active) ==
  IF ballot.index < Len(ballot.ranking) /\ ballot.ranking[ballot.index + 1] \notin active
  THEN activeIndex([ballot EXCEPT !.index = @ + 1], active)
  ELSE ballot.index

\* activeChoice, lines 293-300: the value returned.
activeChoice(ballot, active) ==
  LET i == activeIndex(ballot, active)
  IN IF i < Len(ballot.ranking) THEN ballot.ranking[i + 1] ELSE NoCandidate

\* The ballots after activeChoice has run on each of them (tally's side effect).
settle(ballots, active) ==
  [i \in DOMAIN ballots |-> [ballots[i] EXCEPT !.index = activeIndex(ballots[i], active)]]

\* The sum of weights[lo..hi]. The sum is exact, so the order of the additions
\* is free; halving keeps the evaluation shallow for hundreds of ballots.
RECURSIVE sumWeights(_, _, _)
sumWeights(weights, lo, hi) ==
  IF lo > hi THEN FracInt(0)
  ELSE IF lo = hi THEN weights[lo]
  ELSE FracAdd(sumWeights(weights, lo, (lo + hi) \div 2),
               sumWeights(weights, ((lo + hi) \div 2) + 1, hi))

\* lines 304-311: the weight of the ballots from k on that count for the candidate.
weightFor(ballots, active, candidateId_, k) ==
  sumWeights([i \in DOMAIN ballots |->
                IF activeChoice(ballots[i], active) = candidateId_
                THEN ballots[i].weight ELSE FracInt(0)], k, Len(ballots))

\* tally, lines 302-313: the totals returned.
tally(ballots, active) ==
  [c \in active |-> weightFor(ballots, active, c, 1)]

\* lowestCandidate with equal totals taken by descending id.
lowestCandidateLaterId(totals) ==
  CHOOSE a \in DOMAIN totals :
    \A b \in DOMAIN totals \ {a} :
      \/ FracCmp(totals[a], totals[b]) < 0
      \/ FracCmp(totals[a], totals[b]) = 0 /\ a > b

\* lowestCandidate, lines 315-321
lowestCandidate(totals) ==
  CHOOSE a \in DOMAIN totals :
    \A b \in DOMAIN totals \ {a} :
      \/ FracCmp(totals[a], totals[b]) < 0
      \/ FracCmp(totals[a], totals[b]) = 0 /\ a < b

\* transferSurplus, lines 323-340: the ballots after the call.
transferSurplus(winnerId, winnerTotal, quota, ballots, active) ==
  LET surplus == FracAdd(winnerTotal, FracInt(-quota)) IN
  IF FracCmp(surplus, FracInt(0)) <= 0 \/ FracCmp(winnerTotal, FracInt(0)) <= 0
  THEN ballots
  ELSE LET transferRatio == FracDiv(surplus, winnerTotal) IN
       [i \in DOMAIN ballots |->
          LET b == ballots[i]
              idx == activeIndex(b, active)
          IN IF idx < Len(b.ranking) /\ b.ranking[idx + 1] = winnerId
             THEN [b EXCEPT !.weight = FracMul(@, transferRatio), !.index = idx + 1]
             ELSE [b EXCEPT !.index = idx]]

\* line 368 with the tallies compared the other way round.
winnerBeforeAscending(a, b, totals) ==
  \/ FracCmp(totals[a], totals[b]) < 0
  \/ FracCmp(totals[a], totals[b]) = 0 /\ a < b

\* The comparator of line 368: a sorts before b.
winnerBefore(a, b, totals) ==
  \/ FracCmp(totals[a], totals[b]) > 0
  \/ FracCmp(totals[a], totals[b]) = 0 /\ a < b

\* lines 366-368: the candidates at or above quota, sorted.
RECURSIVE sortWinners(_, _)
sortWinners(S, totals) ==
  IF S = {} THEN <<>>
  ELSE LET first == CHOOSE a \in S : \A b \in S \ {a} : winnerBefore(a, b, totals)
       IN <<first>> \o sortWinners(S \ {first}, totals)

winnersOf(totals, quota) ==
  sortWinners({c \in DOMAIN totals : FracCmp(totals[c], FracInt(quota)) >= 0}, totals)

\* lines 359-360: Array.from(active).sort((a, b) => a.localeCompare(b))
RECURSIVE sortIds(_)
sortIds(S) ==
  IF S = {} THEN <<>>
  ELSE LET first == CHOOSE a \in S : \A b \in S : a <= b
       IN <<first>> \o sortIds(S \ {first})

\* lines 371-376 without active.delete(winnerId).
RECURSIVE electWinnersKeepActive(_, _, _, _, _)
electWinnersKeepActive(winners, totals, quota, seats, st) ==
  IF winners = <<>> THEN st
  ELSE LET winnerId == Head(winners) IN
       IF winnerId \notin st.active \/ Len(st.elected) >= seats
       THEN electWinnersKeepActive(Tail(winners), totals, quota, seats, st)
       ELSE electWinnersKeepActive(Tail(winners), totals, quota, seats,
              [elected |-> Append(st.elected, winnerId),
               ballots |-> transferSurplus(winnerId, totals[winnerId], quota,
                                           st.ballots, st.active),
               active |-> st.active])

\* lines 371-376: winners.forEach; st is [elected, ballots, active].
RECURSIVE electWinners(_, _, _, _, _)
electWinners(winners, totals, quota, seats, st) ==
  IF winners = <<>> THEN st
  ELSE LET winnerId == Head(winners) IN
       IF winnerId \notin st.active \/ Len(st.elected) >= seats
       THEN electWinners(Tail(winners), totals, quota, seats, st)
       ELSE electWinners(Tail(winners), totals, quota, seats,
              [elected |-> Append(st.elected, winnerId),
               ballots |-> transferSurplus(winnerId, totals[winnerId], quota,
                                           st.ballots, st.active),
               active |-> st.active \ {winnerId}])

\* elected.slice(0, seats), lines 384 and 395
sliceSeats(elected, seats) ==
  SubSeq(elected, 1, IF seats < Len(elected) THEN seats ELSE Len(elected))

\* lines 385-391
seatsByParty(candidates, electedSet) ==
  [p \in {candidates[i].partyId : i \in DOMAIN candidates} |->
     Cardinality({i \in DOMAIN candidates :
        candidates[i].partyId = p /\ candidates[i].id \in electedSet})]

\* line 348: validVotes
validVotes(ballots, k) ==
  sumWeights([i \in DOMAIN ballots |-> ballots[i].weight], k, Len(ballots))

\* lines 352-355 had the counter worked on the caller's ballot objects.
callerBallotsShared(ballots, weighted) ==
  [i \in DOMAIN ballots |->
     [ranking |-> weighted[i].ranking, weight |-> weighted[i].weight]]

\* lines 352-355: each weighted ballot is a copy ({...ballot, index: 0}), so
\* the caller's objects keep their weight whatever happens to the copies.
callerBallots(ballots, weighted) == ballots

\* line 358 with a strict comparison.
fillsRemainingStrict(active, seats, elected) ==
  Cardinality(active) < seats - Len(elected)

\* line 358
fillsRemaining(active, seats, elected) ==
  Cardinality(active) <= seats - Len(elected)

\* line 357: the while condition
loopRuns(elected, seats, active) == Len(elected) < seats /\ Cardinality(active) > 0

NoSTVResult == [returned |-> FALSE, quota |-> 0, electedCandidateIds |-> <<>>,
                seatsByParty |-> <<>>]
\* lines 384-397: the value runSTV returns.
resultOf(elected, seats, candidates, quota) ==
  [returned |-> TRUE, quota |-> quota,
   electedCandidateIds |-> sliceSeats(elected, seats),
   seatsByParty |-> seatsByParty(candidates, Range(sliceSeats(elected, seats)))]

\* Where runSTV stands after an iteration (or before the first): back at the
\* while condition, or past the loop with its result returned.
afterRound(broke, elected, seats, active, candidates, quota) ==
  IF ~broke /\ loopRuns(elected, seats, active)
  THEN [pc |-> "loop", result |-> NoSTVResult]
  ELSE [pc |-> "done", result |-> resultOf(elected, seats, candidates, quota)]

NoRound == [kind |-> "none", totals |-> <<>>, electedNow |-> <<>>, removed |-> {},
            remaining |-> 0]

\* runSTV, lines 347-357 (and lines 384-397 when the loop is not entered)
runSTVCall(seats, candidates, ballots) ==
  /\ stvSeats' = seats
  /\ stvCandidates' = candidates
  /\ stvBallots' = ballots
  /\ \E quota \in {droopQuota(validVotes(ballots, 1), seats)},
        active \in {{candidates[i].id : i \in DOMAIN candidates}} :
       \E next \in {afterRound(FALSE, <<>>, seats, active, candidates, quota)} :
         /\ stvQuota' = quota
         /\ stvActive' = active
         /\ stvPc' = next.pc
         /\ stvResult' = next.result
  /\ stvElected' = <<>>
  /\ stvWeighted' = [i \in DOMAIN ballots |->
                       [ranking |-> ballots[i].ranking, weight |-> ballots[i].weight,
                        index |-> 0]]
  /\ stvRounds' = 0
  /\ stvRound' = NoRound
  /\ stvEliminated' = {}

\* The slates of direct calls: candidate k stands for party ((k-1) % 2) + 1,
\* so a slate is not listed in id order.
slateOf(n) ==
  [k \in 1..n |-> [id |-> candidateId(((k - 1) % 2) + 1, ((k - 1) \div 2) + 1),
                   partyId |-> ((k - 1) % 2) + 1]]

\* The caller of a direct call picks the seats and the slate.
callerSlate ==
  /\ stvPc = "idle"
  /\ \E n \in 0..MaxCands, seats \in 1..MaxSeats :
       /\ stvSeats' = seats
       /\ stvCandidates' = slateOf(n)
  /\ stvBallots' = <<>>
  /\ stvPc' = "cast"
  /\ UNCHANGED <<stvQuota, stvActive, stvElected, stvWeighted, stvResult, stvRounds,
                 stvRound, stvEliminated, stvRun, stvFirst>>

RECURSIVE LexLeq(_, _)
LexLeq(a, b) ==
  IF a = <<>> THEN TRUE
  ELSE IF b = <<>> THEN FALSE
  ELSE IF Head(a) # Head(b) THEN Head(a) < Head(b)
  ELSE LexLeq(Tail(a), Tail(b))

BallotKey(ballot) == ballot.ranking \o <<ballot.weight.n>>

\* The full rankings of each slate of direct calls.
RankingsOf == [n \in 0..MaxCands |-> Orderings({slateOf(n)[k].id : k \in 1..n})]

\* The caller adds a ballot: a full ranking of the slate with a weight.  Ballots
\* are listed in a fixed order of their kinds (the count only adds weights, so
\* the order of the ballots does not enter any tally).
callerCast ==
  /\ stvPc = "cast"
  /\ Len(stvBallots) < MaxBallots
  /\ Len(stvCandidates) > 0
  /\ \E r \in RankingsOf[Len(stvCandidates)], w \in BallotWeights :
       LET ballot == [ranking |-> r, weight |-> FracInt(w)] IN
       /\ Len(stvBallots) > 0 =>
            LexLeq(BallotKey(stvBallots[Len(stvBallots)]), BallotKey(ballot))
       /\ stvBallots' = Append(stvBallots, ballot)
  /\ UNCHANGED <<stvPc, stvSeats, stvCandidates, stvQuota, stvActive, stvElected,
                 stvWeighted, stvResult, stvRounds, stvRound, stvEliminated, stvRun,
                 stvFirst>>

\* A first call of runSTV on the caller's seats, slate and ballots.
stvCallDirect ==
  /\ stvPc = "cast"
  /\ runSTVCall(stvSeats, stvCandidates, stvBallots)
  /\ stvFirst' = [ballots |-> stvBallots, result |-> NoSTVResult]
  /\ stvRun' = 1

\* One iteration of the while loop, lines 358-363: no more active candidates
\* than seats left: elect them all, break, return.
stvRoundFill ==
  /\ stvPc = "loop"
  /\ loopRuns(stvElected, stvSeats, stvActive)
  /\ fillsRemaining(stvActive, stvSeats, stvElected)
  /\ \E sorted \in {sortIds(stvActive)} :
     \E next \in {afterRound(TRUE, stvElected \o sorted, stvSeats, stvActive,
                             stvCandidates, stvQuota)} :
       /\ stvElected' = stvElected \o sorted
       /\ stvRound' = [kind |-> "fill", totals |-> <<>>, electedNow |-> sorted,
                       removed |-> {}, remaining |-> stvSeats - Len(stvElected)]
       /\ stvPc' = next.pc
       /\ stvResult' = next.result
  /\ stvRounds' = stvRounds + 1
  /\ UNCHANGED <<stvSeats, stvCandidates, stvBallots, stvQuota, stvActive, stvWeighted,
                 stvEliminated, stvRun, stvFirst>>

\* One iteration of the while loop, lines 365-378: tally, and elect the
\* candidates at or above quota (then return if the loop is over).
stvRoundElect ==
  /\ stvPc = "loop"
  /\ loopRuns(stvElected, stvSeats, stvActive)
  /\ ~fillsRemaining(stvActive, stvSeats, stvElected)
  /\ \E totals \in {tally(stvWeighted, stvActive)} :
     \E winners \in {winnersOf(totals, stvQuota)} :
       /\ Len(winners) > 0
       /\ \E st \in {electWinners(winners, totals, stvQuota, stvSeats,
                      [elected |-> stvElected, ballots |-> settle(stvWeighted, stvActive),
                       active |-> stvActive])} :
          \E next \in {afterRound(FALSE, st.elected, stvSeats, st.active, stvCandidates,
                                  stvQuota)} :
            /\ stvElected' = st.elected
            /\ stvWeighted' = st.ballots
            /\ stvActive' = st.active
            /\ stvBallots' = callerBallots(stvBallots, st.ballots)
            /\ stvRound' = [kind |-> "elect", totals |-> totals,
                            electedNow |-> SubSeq(st.elected, Len(stvElected) + 1,
                                                  Len(st.elected)),
                            removed |-> stvActive \ st.active,
                            remaining |-> stvSeats - Len(stvElected)]
            /\ stvPc' = next.pc
            /\ stvResult' = next.result
  /\ stvRounds' = stvRounds + 1
  /\ UNCHANGED <<stvSeats, stvCandidates, stvQuota, stvEliminated, stvRun, stvFirst>>

\* lines 365-382 with nobody eliminated at the end.
stvRoundEliminateNobody ==
  /\ stvPc = "loop"
  /\ loopRuns(stvElected, stvSeats, stvActive)
  /\ ~fillsRemaining(stvActive, stvSeats, stvElected)
  /\ \E totals \in {tally(stvWeighted, stvActive)} :
       /\ Len(winnersOf(totals, stvQuota)) = 0
       /\ \E settled \in {settle(stvWeighted, stvActive)} :
            /\ stvWeighted' = settled
            /\ stvBallots' = callerBallots(stvBallots, settled)
       /\ stvRound' = [kind |-> "eliminate", totals |-> totals, electedNow |-> <<>>,
                       removed |-> {}, remaining |-> stvSeats - Len(stvElected)]
  /\ stvRounds' = stvRounds + 1
  /\ stvPc' = "loop"
  /\ UNCHANGED <<stvSeats, stvCandidates, stvQuota, stvActive, stvElected, stvResult,
                 stvEliminated, stvRun, stvFirst>>

\* One iteration of the while loop, lines 365-382: tally, nobody at quota:
\* eliminate the lowest candidate (then return if the loop is over).
stvRoundEliminate ==
  /\ stvPc = "loop"
  /\ loopRuns(stvElected, stvSeats, stvActive)
  /\ ~fillsRemaining(stvActive, stvSeats, stvElected)
  /\ \E totals \in {tally(stvWeighted, stvActive)} :
       /\ Len(winnersOf(totals, stvQuota)) = 0
       /\ \E eliminated \in {lowestCandidate(totals)} :
          \E next \in {afterRound(FALSE, stvElected, stvSeats, stvActive \ {eliminated},
                                  stvCandidates, stvQuota)} :
            /\ stvActive' = stvActive \ {eliminated}
            /\ stvEliminated' = stvEliminated \cup {eliminated}
            /\ stvRound' = [kind |-> "eliminate", totals |-> totals, electedNow |-> <<>>,
                            removed |-> {eliminated},
                            remaining |-> stvSeats - Len(stvElected)]
            /\ stvPc' = next.pc
            /\ stvResult' = next.result
       /\ \E settled \in {settle(stvWeighted, stvActive)} :
            /\ stvWeighted' = settled
            /\ stvBallots' = callerBallots(stvBallots, settled)
  /\ stvRounds' = stvRounds + 1
  /\ UNCHANGED <<stvSeats, stvCandidates, stvQuota, stvElected, stvRun, stvFirst>>

\* The caller runs runSTV again on the same seats, candidates and ballot objects.
stvCallAgain ==
  /\ stvPc = "done"
  /\ stvRun = 1
  /\ runSTVCall(stvSeats, stvCandidates, stvBallots)
  /\ stvRun' = 2
  /\ stvFirst' = [stvFirst EXCEPT !.result = stvResult]

\* ------------------------------------------------- pr/ballotGenerator.ts
\* A 32-bit word is the pair <<high 16 bits, low 16 bits>>.
RECURSIVE Xor16(_, _)
Xor16(a, b) ==
  IF a = 0 THEN b
  ELSE IF b = 0 THEN a
  ELSE ((a + b) % 2) + 2 * Xor16(a \div 2, b \div 2)

RECURSIVE Or16(_, _)
Or16(a, b) ==
  IF a = 0 THEN b
  ELSE IF b = 0 THEN a
  ELSE (IF a % 2 = 1 \/ b % 2 = 1 THEN 1 ELSE 0) + 2 * Or16(a \div 2, b \div 2)

RECURSIVE Pow2(_)
Pow2(k) == IF k = 0 THEN 1 ELSE 2 * Pow2(k - 1)

\* a ^ b
Xor32(a, b) == <<Xor16(a[1], b[1]), Xor16(a[2], b[2])>>
\* a | b
Or32(a, b) == <<Or16(a[1], b[1]), Or16(a[2], b[2])>>
\* a >>> k for 0 < k < 16
Shr32(a, k) ==
  <<a[1] \div Pow2(k), (a[1] % Pow2(k)) * Pow2(16 - k) + a[2] \div Pow2(k)>>
\* (a + b) modulo 2^32
Add32(a, b) ==
  <<(a[1] + b[1] + (a[2] + b[2]) \div 65536) % 65536, (a[2] + b[2]) % 65536>>
\* The product of two 16-bit numbers as a 32-bit word.
Mul16(x, y) ==
  Add32(<<((x \div 256) * y) \div 256, (((x \div 256) * y) % 256) * 256>>,
        <<((x % 256) * y) \div 65536, ((x % 256) * y) % 65536>>)
\* Math.imul(a, b): the low 32 bits of the product.
Imul32(a, b) ==
  Add32(Mul16(a[2], b[2]),
        <<(Mul16(a[1], b[2])[2] + Mul16(a[2], b[1])[2]) % 65536, 0>>)

\* 0x6d2b79f5, line 149
rngIncrement == <<27947, 31221>>

\* lines 150-152: the 32-bit word whose value / 4294967296 is returned, for
\* the state t after line 149.
rngMix2(x) == Xor32(x, Shr32(x, 14))
rngMix1(x) ==
  rngMix2(Xor32(x, Add32(x, Imul32(Xor32(x, Shr32(x, 7)), Or32(<<0, 61>>, x)))))
rngMix(t) == rngMix1(Imul32(Xor32(t, Shr32(t, 15)), Or32(<<0, 1>>, t)))

\* One call of the closure returned by createSeededRng, lines 148-153:
\* the new state and the word returned.  t is a double that only grows, but
\* lines 150-152 read it through bitwise operators, that is modulo 2^32
\* (exactly so while t < 2^53, more than four million calls).
rngCall(t) ==
  [t |-> Add32(t, rngIncrement), word |-> rngMix(Add32(t, rngIncrement))]

\* rng() <= c, where rng() is word / 2^32 and c a fraction (line 162).
RollLeq(word, c) ==
  LET a == word[1] * c.d + (word[2] * c.d) \div 65536
      rem == (word[2] * c.d) % 65536
  IN a < c.n * 65536 \/ (a = c.n * 65536 /\ rem = 0)

\* Math.floor(rng() * m), line 170
FloorScaled(word, m) == (word[1] * m + (word[2] * m) \div 65536) \div 65536

\* input[partyId] ?? 0, line 270
shareOf(input, partyId) == IF partyId \in DOMAIN input THEN input[partyId] ELSE 0

\* normalizeShares (pr/districtPlan.ts), lines 264-284
normalizeShares(input, partyIds) ==
  LET next == [p \in Range(partyIds) |->
                 IF shareOf(input, p) > 0 THEN shareOf(input, p) ELSE 0]
      total == SumOver(next, Range(partyIds))
  IN IF total <= 0
     THEN [p \in Range(partyIds) |->
             Frac(1, IF Len(partyIds) > 1 THEN Len(partyIds) ELSE 1)]
     ELSE [p \in Range(partyIds) |-> Frac(next[p], total)]

\* chooseWeighted returns undefined for a map without keys.
NoParty == 0

\* chooseWeighted, lines 159-164: the loop from key k on.
RECURSIVE chooseFrom(_, _, _, _, _)
chooseFrom(weights, keys, word, k, cumulative) ==
  IF k > Len(keys) THEN (IF keys = <<>> THEN NoParty ELSE keys[Len(keys)])
  ELSE LET c == FracAdd(cumulative, weights[keys[k]]) IN
       IF RollLeq(word, c) THEN keys[k]
       ELSE chooseFrom(weights, keys, word, k + 1, c)

\* chooseWeighted, lines 156-165; keys is Object.keys(weights), the roster
\* order in which normalizeShares inserted them.
chooseWeighted(weights, keys, word) == chooseFrom(weights, keys, word, 1, FracInt(0))

\* line 171 writing out[j] to out[i] only.
RECURSIVE shuffleFromOverwrite(_, _, _)
shuffleFromOverwrite(out, i, t) ==
  IF i <= 0 THEN [out |-> out, t |-> t]
  ELSE shuffleFromOverwrite(
         [out EXCEPT ![i + 1] = out[FloorScaled(rngCall(t).word, i + 1) + 1]],
         i - 1, rngCall(t).t)

\* shuffle, lines 169-172: the loop from index i (0-based) down.
RECURSIVE shuffleFrom(_, _, _)
shuffleFrom(out, i, t) ==
  IF i <= 0 THEN [out |-> out, t |-> t]
  ELSE shuffleFrom(Swap(out, i + 1, FloorScaled(rngCall(t).word, i + 1) + 1),
                   i - 1, rngCall(t).t)

\* shuffle, lines 167-174: the shuffled copy and the state of rng afterwards.
shuffle(values, t) == shuffleFrom(values, Len(values) - 1, t)

\* line 180
perParty(seats) == IF seats + 1 > 1 THEN seats + 1 ELSE 1

\* buildCandidateSlate, lines 176-188
buildCandidateSlate(partyIds, seats) ==
  [k \in 1..(Len(partyIds) * perParty(seats)) |->
     [id |-> candidateId(partyIds[((k - 1) \div perParty(seats)) + 1],
                         ((k - 1) % perParty(seats)) + 1),
      partyId |-> partyIds[((k - 1) \div perParty(seats)) + 1]]]

\* byParty[partyId] ?? [], mapped to ids (lines 200-204, 217)
RECURSIVE idsOfParty(_, _, _)
idsOfParty(candidates, partyId, k) ==
  IF k > Len(candidates) THEN <<>>
  ELSE (IF candidates[k].partyId = partyId THEN <<candidates[k].id>> ELSE <<>>)
       \o idsOfParty(candidates, partyId, k + 1)

\* partyIds.filter((partyId) => partyId !== firstParty), line 212
RECURSIVE filterOut(_, _)
filterOut(partyIds, firstParty) ==
  IF partyIds = <<>> THEN <<>>
  ELSE (IF Head(partyIds) # firstParty THEN <<Head(partyIds)>> ELSE <<>>)
       \o filterOut(Tail(partyIds), firstParty)

\* lines 216-218: the flatMap over partyOrder from party k on.
RECURSIVE rankFrom(_, _, _, _, _)
rankFrom(partyOrder, candidates, k, ranking, t) ==
  IF k > Len(partyOrder) THEN [ranking |-> ranking, t |-> t]
  ELSE LET s == shuffle(idsOfParty(candidates, partyOrder[k], 1), t)
       IN rankFrom(partyOrder, candidates, k + 1, ranking \o s.out, s.t)

\* lines 210-219, one iteration of the for loop: the ballot pushed and the
\* state of rng afterwards.
oneBallot(normalized, partyIds, candidates, t) ==
  LET roll == rngCall(t)
      firstParty == chooseWeighted(normalized, partyIds, roll.word)
      remainingParties == shuffle(filterOut(partyIds, firstParty), roll.t)
      ranked == rankFrom(<<firstParty>> \o remainingParties.out, candidates, 1, <<>>,
                         remainingParties.t)
  IN [ballot |-> [ranking |-> ranked.ranking, weight |-> 1], t |-> ranked.t]

\* The rosters a caller may pass: any parties in any order.
Rosters == UNION {Orderings(S) : S \in SUBSET Parties}

\* generateRankedBallots, lines 197-207: up to the for loop.
generateCall ==
  /\ genPc = "idle"
  /\ \E partyIds \in Rosters, seats \in 0..MaxSeats, ballotCount \in 0..MaxBallots,
        seed \in Seeds :
       \E partyShares \in [Range(partyIds) -> ShareValues] :
         /\ genPartyIds' = partyIds
         /\ genShares' = partyShares
         /\ genSeats' = seats
         /\ genCount' = ballotCount
         /\ genNormalized' = normalizeShares(partyShares, partyIds)
         /\ genCandidates' = buildCandidateSlate(partyIds, seats)
         /\ genSeed' = seed
         /\ genT' = seed
  /\ genBallots' = <<>>
  /\ genPc' = "loop"

\* One iteration of the for loop, lines 209-220.
generateBallot ==
  /\ genPc = "loop"
  /\ Len(genBallots) < genCount
  /\ \E made \in {oneBallot(genNormalized, genPartyIds, genCandidates, genT)} :
       /\ genBallots' = Append(genBallots, made.ballot)
       /\ genT' = made.t
  /\ UNCHANGED <<genPc, genPartyIds, genShares, genSeats, genCount, genSeed,
                 genNormalized, genCandidates>>

\* Line 222: the loop is over, { ballots, candidates } is returned.
generateReturn ==
  /\ genPc = "loop"
  /\ Len(genBallots) >= genCount
  /\ genPc' = "done"
  /\ UNCHANGED <<genPartyIds, genShares, genSeats, genCount, genSeed, genNormalized,
                 genCandidates, genT, genBallots>>

\* runSTV({ seats, ...generated }) as the test suite and runHybridPRByState
\* call it (part_004 lines 62, 85; part_003 lines 505-509): on the generated
\* ballots and slate, with the seats the ballots were generated for.
stvCallGenerated ==
  /\ genPc = "done"
  /\ stvPc = "idle"
  /\ \E ballots \in {[i \in DOMAIN genBallots |->
                        [ranking |-> genBallots[i].ranking,
                         weight |-> FracInt(genBallots[i].weight)]]} :
       /\ runSTVCall(genSeats, genCandidates, ballots)
       /\ stvFirst' = [ballots |-> ballots, result |-> NoSTVResult]
  /\ stvRun' = 1

\* ------------------------------------------------- overlays.ts
FracSub(x, y) == FracAdd(x, [n |-> -y.n, d |-> y.d])
\* x - Math.floor(x)
FracPart(x) == FracSub(x, FracInt(FracFloor(x)))
FracMax(x, y) == IF FracCmp(x, y) >= 0 THEN x ELSE y
FracMin(x, y) == IF FracCmp(x, y) <= 0 THEN x ELSE y

\* Array.prototype.sort with the comparator b.value - a.value (lines 27, 81):
\* a stable sort by descending value.  Entry i of the list is inserted into
\* the sorted list of the entries before it.
RECURSIVE insertDescending(_, _, _)
insertDescending(sorted, entry, k) ==
  IF k > Len(sorted) \/ FracCmp(sorted[k].value, entry.value) < 0
  THEN SubSeq(sorted, 1, k - 1) \o <<entry>> \o SubSeq(sorted, k, Len(sorted))
  ELSE insertDescending(sorted, entry, k + 1)

\* The same sort with equal values taken in the reverse of the listed order.
RECURSIVE insertDescendingBefore(_, _, _)
insertDescendingBefore(sorted, entry, k) ==
  IF k > Len(sorted) \/ FracCmp(sorted[k].value, entry.value) <= 0
  THEN SubSeq(sorted, 1, k - 1) \o <<entry>> \o SubSeq(sorted, k, Len(sorted))
  ELSE insertDescendingBefore(sorted, entry, k + 1)

RECURSIVE sortDescendingTiesReversed(_)
sortDescendingTiesReversed(entries) ==
  IF entries = <<>> THEN <<>>
  ELSE insertDescendingBefore(
         sortDescendingTiesReversed(SubSeq(entries, 1, Len(entries) - 1)),
         entries[Len(entries)], 1)

RECURSIVE sortDescending(_)
sortDescending(entries) ==
  IF entries = <<>> THEN <<>>
  ELSE insertDescending(sortDescending(SubSeq(entries, 1, Len(entries) - 1)),
                        entries[Len(entries)], 1)

\* The shares a caller may pass, from -1/d to (d+1)/d.
AnyShares == {Frac(k, d) : k \in -1..(ShareDen + 1), d \in 1..ShareDen}
UnitShares == {x \in AnyShares : FracCmp(x, FracInt(0)) >= 0 /\ FracCmp(x, FracInt(1)) <= 0}

NoAllocation == [returned |-> FALSE, seats |-> <<>>]

\* hamiltonAllocation, lines 16-29: up to the while loop.
hamiltonAllocationCall ==
  /\ ovPc = "idle"
  /\ \E totalSeats \in 0..MaxTotal, partyAShare \in UnitShares :
       \E rawA \in {FracMul(FracInt(totalSeats), partyAShare)},
          rawB \in {FracMul(FracInt(totalSeats), FracSub(FracInt(1), partyAShare))} :
         /\ ovTotal' = totalSeats
         /\ ovShares' = <<partyAShare>>
         /\ ovRaw' = [A |-> rawA, B |-> rawB]
         /\ ovSeats' = [A |-> FracFloor(rawA), B |-> FracFloor(rawB)]
         /\ ovAllocated' = FracFloor(rawA) + FracFloor(rawB)
         /\ ovRemainders' = sortDescending(<<[party |-> "A", value |-> FracPart(rawA)],
                                             [party |-> "B", value |-> FracPart(rawB)]>>)
  /\ ovFn' = "two"
  /\ ovIdx' = 0
  /\ ovPc' = "loop"
  /\ ovResult' = NoAllocation

\* Lines 30-39 with the seat counters left alone.
hamiltonAwardNobody ==
  /\ ovPc = "loop"
  /\ ovFn = "two"
  /\ ovAllocated < ovTotal
  /\ ovAllocated' = ovAllocated + 1
  /\ ovIdx' = ovIdx + 1
  /\ UNCHANGED <<ovPc, ovFn, ovTotal, ovShares, ovRaw, ovRemainders, ovSeats, ovResult>>

\* hamiltonAllocation, one iteration of the while loop, lines 30-39.
hamiltonAward ==
  /\ ovPc = "loop"
  /\ ovFn = "two"
  /\ ovAllocated < ovTotal
  /\ \E pick \in {ovRemainders[(ovIdx % Len(ovRemainders)) + 1]} :
       ovSeats' = IF pick.party = "A" THEN [ovSeats EXCEPT !.A = @ + 1]
                                     ELSE [ovSeats EXCEPT !.B = @ + 1]
  /\ ovAllocated' = ovAllocated + 1
  /\ ovIdx' = ovIdx + 1
  /\ UNCHANGED <<ovPc, ovFn, ovTotal, ovShares, ovRaw, ovRemainders, ovResult>>

\* hamiltonAllocation, line 41: the loop is over.
hamiltonReturn ==
  /\ ovPc = "loop"
  /\ ovFn = "two"
  /\ ~(ovAllocated < ovTotal)
  /\ ovResult' = [returned |-> TRUE, seats |-> [partyA |-> ovSeats.A, partyB |-> ovSeats.B]]
  /\ ovPc' = "done"
  /\ UNCHANGED <<ovFn, ovTotal, ovShares, ovRaw, ovRemainders, ovSeats, ovAllocated, ovIdx>>

\* hamiltonThreePartyAllocation, lines 49-82: up to the while loop.
hamiltonThreePartyCall ==
  /\ ovPc = "idle"
  /\ \E totalSeats \in 0..MaxTotal, democratsShare \in AnyShares,
        independentsShare \in AnyShares :
       \E safeDemocrats \in {FracMin(FracInt(1), FracMax(FracInt(0), democratsShare))},
          safeIndependents \in {FracMin(FracInt(1), FracMax(FracInt(0), independentsShare))} :
       \E combined \in {FracAdd(safeDemocrats, safeIndependents)} :
       \E normalizedDemocrats \in {IF FracCmp(combined, FracInt(1)) > 0
                                    THEN FracDiv(safeDemocrats, combined)
                                    ELSE safeDemocrats},
          normalizedIndependents \in {IF FracCmp(combined, FracInt(1)) > 0
                                       THEN FracDiv(safeIndependents, combined)
                                       ELSE safeIndependents} :
       \E normalizedRepublicans \in
            {FracMax(FracInt(0), FracSub(FracSub(FracInt(1), normalizedDemocrats),
                                         normalizedIndependents))} :
       \E raw \in {[democrats |-> FracMul(FracInt(totalSeats), normalizedDemocrats),
                     republicans |-> FracMul(FracInt(totalSeats), normalizedRepublicans),
                     independents |-> FracMul(FracInt(totalSeats), normalizedIndependents)]} :
         /\ ovTotal' = totalSeats
         /\ ovShares' = <<democratsShare, independentsShare>>
         /\ ovRaw' = raw
         /\ ovSeats' = [q \in DOMAIN raw |-> FracFloor(raw[q])]
         /\ ovAllocated' = FracFloor(raw.democrats) + FracFloor(raw.republicans)
                             + FracFloor(raw.independents)
         /\ ovRemainders' = sortDescending(
              <<[party |-> "democrats", value |-> FracPart(raw.democrats)],
                [party |-> "republicans", value |-> FracPart(raw.republicans)],
                [party |-> "independents", value |-> FracPart(raw.independents)]>>)
  /\ ovFn' = "three"
  /\ ovIdx' = 0
  /\ ovPc' = "loop"
  /\ ovResult' = NoAllocation

\* hamiltonThreePartyAllocation, one iteration of the while loop, lines 83-88.
hamiltonThreePartyAward ==
  /\ ovPc = "loop"
  /\ ovFn = "three"
  /\ ovAllocated < ovTotal
  /\ \E pick \in {ovRemainders[(ovIdx % Len(ovRemainders)) + 1]} :
       ovSeats' = [ovSeats EXCEPT ![pick.party] = @ + 1]
  /\ ovAllocated' = ovAllocated + 1
  /\ ovIdx' = ovIdx + 1
  /\ UNCHANGED <<ovPc, ovFn, ovTotal, ovShares, ovRaw, ovRemainders, ovResult>>

\* hamiltonThreePartyAllocation, line 90: the loop is over.
hamiltonThreePartyReturn ==
  /\ ovPc = "loop"
  /\ ovFn = "three"
  /\ ~(ovAllocated < ovTotal)
  /\ ovResult' = [returned |-> TRUE, seats |-> ovSeats]
  /\ ovPc' = "done"
  /\ UNCHANGED <<ovFn, ovTotal, ovShares, ovRaw, ovRemainders, ovSeats, ovAllocated, ovIdx>>


ovInit ==
  /\ ovPc = "idle"
  /\ ovFn = "none"
  /\ ovTotal = 0
  /\ ovShares = <<>>
  /\ ovRaw = <<>>
  /\ ovRemainders = <<>>
  /\ ovSeats = <<>>
  /\ ovAllocated = 0
  /\ ovIdx = 0
  /\ ovResult = NoAllocation

\* ------------------------------------------------- pr/topup.ts
\* initSeats, lines 77-84
initSeats(partyIds) == [q \in Range(partyIds) |-> 0]

\* line 98: normalized[partyId] / (2 * seats[partyId] + 1)
quotient(normalized, seats, partyId) ==
  FracDiv(normalized[partyId], FracInt(2 * seats[partyId] + 1))

\* Line 100 with equal quotients going to the later party id.
sainteLagueWinnerLaterId(normalized, seats, partyIds) ==
  IF partyIds = <<>> THEN NoParty
  ELSE CHOOSE a \in Range(partyIds) : \A b \in Range(partyIds) \ {a} :
         \/ FracCmp(quotient(normalized, seats, a), quotient(normalized, seats, b)) > 0
         \/ /\ FracCmp(quotient(normalized, seats, a), quotient(normalized, seats, b)) = 0
            /\ a > b

\* Lines 95-100: the first entry of the list sorted by descending quotient, then
\* ascending party id; undefined for an empty list.
sainteLagueWinner(normalized, seats, partyIds) ==
  IF partyIds = <<>> THEN NoParty
  ELSE CHOOSE a \in Range(partyIds) : \A b \in Range(partyIds) \ {a} :
         \/ FracCmp(quotient(normalized, seats, a), quotient(normalized, seats, b)) > 0
         \/ /\ FracCmp(quotient(normalized, seats, a), quotient(normalized, seats, b)) = 0
            /\ a < b

NoSeats == [returned |-> FALSE, seats |-> <<>>]
NoSainteLagueRound == [before |-> <<>>, winner |-> NoParty]

\* allocateSainteLague, lines 91-92: up to the for loop.
sainteLagueCall ==
  /\ slPc = "idle"
  /\ \E partyIds \in Rosters, totalSeats \in 0..MaxTotal :
       \E voteShares \in [Range(partyIds) -> ShareValues] :
         /\ slPartyIds' = partyIds
         /\ slShares' = voteShares
         /\ slTotal' = totalSeats
         /\ slNormalized' = normalizeShares(voteShares, partyIds)
         /\ slSeats' = initSeats(partyIds)
  /\ slI' = 0
  /\ slPc' = "loop"
  /\ slResult' = NoSeats
  /\ slRound' = NoSainteLagueRound

\* One iteration of the for loop, lines 94-102; reading winner.partyId of an
\* undefined winner throws a TypeError.
sainteLagueAward ==
  /\ slPc = "loop"
  /\ slI < slTotal
  /\ \E winner \in {sainteLagueWinner(slNormalized, slSeats, slPartyIds)} :
       IF winner = NoParty
       THEN /\ slPc' = "error"
            /\ UNCHANGED <<slSeats, slI, slRound>>
       ELSE /\ slSeats' = [slSeats EXCEPT ![winner] = @ + 1]
            /\ slI' = slI + 1
            /\ slRound' = [before |-> slSeats, winner |-> winner]
            /\ slPc' = "loop"
  /\ UNCHANGED <<slPartyIds, slShares, slTotal, slNormalized, slResult>>

\* Line 104: the loop is over.
sainteLagueReturn ==
  /\ slPc = "loop"
  /\ ~(slI < slTotal)
  /\ slResult' = [returned |-> TRUE, seats |-> slSeats]
  /\ slPc' = "done"
  /\ UNCHANGED <<slPartyIds, slShares, slTotal, slNormalized, slSeats, slI, slRound>>

slInit ==
  /\ slPc = "idle"
  /\ slPartyIds = <<>>
  /\ slShares = <<>>
  /\ slTotal = 0
  /\ slNormalized = <<>>
  /\ slSeats = <<>>
  /\ slI = 0
  /\ slResult = NoSeats
  /\ slRound = NoSainteLagueRound

\* allocateSainteLague, lines 94-104, as a function: the for loop from round i on.
RECURSIVE sainteLagueRounds(_, _, _, _, _)
sainteLagueRounds(normalized, partyIds, seats, i, totalSeats) ==
  IF ~(i < totalSeats) THEN [threw |-> FALSE, seats |-> seats]
  ELSE IF partyIds = <<>> THEN [threw |-> TRUE, seats |-> <<>>]
  ELSE sainteLagueRounds(normalized, partyIds,
         [seats EXCEPT ![sainteLagueWinner(normalized, seats, partyIds)] = @ + 1],
         i + 1, totalSeats)

\* allocateSainteLague, lines 86-105
allocateSainteLague(voteShares, totalSeats, partyIds) ==
  sainteLagueRounds(normalizeShares(voteShares, partyIds), partyIds,
                    initSeats(partyIds), 0, totalSeats)

\* lines 121-124
deficit(ideal, districtSeatsByParty, topUp, partyId) ==
  ideal[partyId] - shareOf(districtSeatsByParty, partyId) - shareOf(topUp, partyId)

\* Line 126 sorting by ascending deficit.
topUpWinnerSmallestDeficit(ideal, districtSeatsByParty, topUp, partyIds) ==
  IF partyIds = <<>> THEN NoParty
  ELSE CHOOSE a \in Range(partyIds) : \A b \in Range(partyIds) \ {a} :
         \/ deficit(ideal, districtSeatsByParty, topUp, a)
              < deficit(ideal, districtSeatsByParty, topUp, b)
         \/ /\ deficit(ideal, districtSeatsByParty, topUp, a)
                = deficit(ideal, districtSeatsByParty, topUp, b)
            /\ a < b

\* Line 126 with equal deficits going to the later party id.
topUpWinnerLaterId(ideal, districtSeatsByParty, topUp, partyIds) ==
  IF partyIds = <<>> THEN NoParty
  ELSE CHOOSE a \in Range(partyIds) : \A b \in Range(partyIds) \ {a} :
         \/ deficit(ideal, districtSeatsByParty, topUp, a)
              > deficit(ideal, districtSeatsByParty, topUp, b)
         \/ /\ deficit(ideal, districtSeatsByParty, topUp, a)
                = deficit(ideal, districtSeatsByParty, topUp, b)
            /\ a > b

\* Lines 118-126: the first entry of the list sorted by descending deficit, then
\* ascending party id; undefined for an empty list.
topUpWinner(ideal, districtSeatsByParty, topUp, partyIds) ==
  IF partyIds = <<>> THEN NoParty
  ELSE CHOOSE a \in Range(partyIds) : \A b \in Range(partyIds) \ {a} :
         \/ deficit(ideal, districtSeatsByParty, topUp, a)
              > deficit(ideal, districtSeatsByParty, topUp, b)
         \/ /\ deficit(ideal, districtSeatsByParty, topUp, a)
                = deficit(ideal, districtSeatsByParty, topUp, b)
            /\ a < b

NoTopUp == [returned |-> FALSE, idealSeats |-> <<>>, topUpSeatsByParty |-> <<>>,
            finalSeatsByParty |-> <<>>]
NoTopUpRound == [before |-> <<>>, winner |-> NoParty]

\* lines 130-136: the value allocateTopUpSeats returns.
topUpResult(partyIds, ideal, districtSeatsByParty, topUp) ==
  [returned |-> TRUE, idealSeats |-> ideal, topUpSeatsByParty |-> topUp,
   finalSeatsByParty |->
     [q \in Range(partyIds) |-> shareOf(districtSeatsByParty, q) + shareOf(topUp, q)]]

\* allocateTopUpSeats, lines 114-115: up to the for loop; the call of
\* allocateSainteLague may throw.
topUpCall ==
  /\ tuPc = "idle"
  /\ \E partyIds \in Rosters, totalSeats \in 0..MaxTotal, topUpSeats \in 0..MaxTopUp :
       \E voteShares \in [Range(partyIds) -> ShareValues],
          districtSeatsByParty \in [Range(partyIds) -> DistrictSeatValues] :
       \E ideal \in {allocateSainteLague(voteShares, totalSeats, partyIds)} :
         /\ tuPartyIds' = partyIds
         /\ tuTotal' = totalSeats
         /\ tuTopUpSeats' = topUpSeats
         /\ tuShares' = voteShares
         /\ tuDistrict' = districtSeatsByParty
         /\ tuIdeal' = ideal.seats
         /\ tuTopUp' = IF ideal.threw THEN <<>> ELSE initSeats(partyIds)
         /\ tuPc' = IF ideal.threw THEN "error" ELSE "loop"
  /\ tuI' = 0
  /\ tuResult' = NoTopUp
  /\ tuRound' = NoTopUpRound

\* One iteration of the for loop, lines 117-128; reading winner.partyId of an
\* undefined winner throws a TypeError.
topUpAward ==
  /\ tuPc = "loop"
  /\ tuI < tuTopUpSeats
  /\ \E winner \in {topUpWinner(tuIdeal, tuDistrict, tuTopUp, tuPartyIds)} :
       IF winner = NoParty
       THEN /\ tuPc' = "error"
            /\ UNCHANGED <<tuTopUp, tuI, tuRound>>
       ELSE /\ tuTopUp' = [tuTopUp EXCEPT ![winner] = @ + 1]
            /\ tuI' = tuI + 1
            /\ tuRound' = [before |-> tuTopUp, winner |-> winner]
            /\ tuPc' = "loop"
  /\ UNCHANGED <<tuPartyIds, tuTotal, tuTopUpSeats, tuShares, tuDistrict, tuIdeal,
                 tuResult>>

\* Lines 130-136: the loop is over.
topUpReturn ==
  /\ tuPc = "loop"
  /\ ~(tuI < tuTopUpSeats)
  /\ tuResult' = topUpResult(tuPartyIds, tuIdeal, tuDistrict, tuTopUp)
  /\ tuPc' = "done"
  /\ UNCHANGED <<tuPartyIds, tuTotal, tuTopUpSeats, tuShares, tuDistrict, tuIdeal,
                 tuTopUp, tuI, tuRound>>

tuInit ==
  /\ tuPc = "idle"
  /\ tuPartyIds = <<>>
  /\ tuTotal = 0
  /\ tuTopUpSeats = 0
  /\ tuShares = <<>>
  /\ tuDistrict = <<>>
  /\ tuIdeal = <<>>
  /\ tuTopUp = <<>>
  /\ tuI = 0
  /\ tuResult = NoTopUp
  /\ tuRound = NoTopUpRound

\* ------------------------------------------------- pr/districtPlan.ts
Max(a, b) == IF a >= b THEN a ELSE b
Min(a, b) == IF a <= b THEN a ELSE b

\* Math.round: the integer nearest to x, halves rounded up.
MathRound(x) == FracFloor(FracAdd(x, Frac(1, 2)))

\* DEFAULT_PR_SETTINGS (pr/types.ts), lines 57-65; topUpSeatShare is 0.1.
DEFAULT_PR_SETTINGS ==
  [districtSeatTarget |-> FracInt(5), minDistrictSeats |-> FracInt(3),
   maxDistrictSeats |-> FracInt(7),
   useTopUp |-> TRUE, topUpSeatShare |-> Frac(1, 10), stvBallotsPerSeat |-> 2000,
   randomSeed |-> 2026]

\* clampPRSettings, lines 141-158; the upper limit of topUpSeatShare is 0.3.
clampPRSettings(settings) ==
  LET minDistrictSeats == FracMax(FracInt(1), FracMin(FracInt(10), settings.minDistrictSeats))
      maxDistrictSeats ==
        FracMax(minDistrictSeats, FracMin(FracInt(12), settings.maxDistrictSeats))
  IN [settings EXCEPT
        !.minDistrictSeats = minDistrictSeats,
        !.maxDistrictSeats = maxDistrictSeats,
        !.districtSeatTarget =
           FracMax(minDistrictSeats, FracMin(maxDistrictSeats, settings.districtSeatTarget)),
        !.topUpSeatShare = FracMax(FracInt(0), FracMin(Frac(3, 10), settings.topUpSeatShare)),
        !.stvBallotsPerSeat = Max(100, MathRound(FracInt(settings.stvBallotsPerSeat)))]

RECURSIVE SumSeq(_)
SumSeq(parts) == IF parts = <<>> THEN 0 ELSE Head(parts) + SumSeq(Tail(parts))

RECURSIVE FracSumSeq(_)
FracSumSeq(values) ==
  IF values = <<>> THEN FracInt(0) ELSE FracAdd(Head(values), FracSumSeq(Tail(values)))

\* Math.abs
FracAbs(x) == IF x.n < 0 THEN [n |-> -x.n, d |-> x.d] ELSE x
\* Math.ceil
FracCeil(x) == -((-x.n) \div x.d)
\* k < x and k > x for an integer k and a number x
Below(k, x) == FracCmp(FracInt(k), x) < 0
Above(k, x) == FracCmp(FracInt(k), x) > 0

\* scorePlan, lines 160-166
scorePlan(parts, target) ==
  LET mean == Frac(SumSeq(parts), Len(parts))
      variance == FracDiv(
        FracSumSeq([k \in DOMAIN parts |->
                      FracMul(FracSub(FracInt(parts[k]), mean),
                              FracSub(FracInt(parts[k]), mean))]),
        FracInt(Len(parts)))
      targetPenalty == FracSumSeq([k \in DOMAIN parts |->
                                     FracAbs(FracSub(FracInt(parts[k]), target))])
  IN FracAdd(FracMul(variance, FracInt(10)), targetPenalty)

\* buildBalancedParts, lines 181-186: the first loop from position i (1-based).
RECURSIVE raiseToRemainder(_, _, _, _)
raiseToRemainder(parts, i, remainder, max) ==
  IF ~(i <= Len(parts) /\ remainder > 0) THEN [parts |-> parts, remainder |-> remainder]
  ELSE IF Below(parts[i], max)
       THEN raiseToRemainder([parts EXCEPT ![i] = @ + 1], i + 1, remainder - 1, max)
       ELSE raiseToRemainder(parts, i + 1, remainder, max)

\* lines 188-193: the second loop from position i down.
RECURSIVE lowerToMax(_, _, _, _)
lowerToMax(parts, i, remainder, max) ==
  IF i < 1 THEN [parts |-> parts, remainder |-> remainder]
  ELSE IF Above(parts[i], max) /\ remainder >= 0
       THEN lowerToMax([parts EXCEPT ![i] = @ - 1], i, remainder + 1, max)
       ELSE lowerToMax(parts, i - 1, remainder, max)

\* lines 195-200: the third loop from position i up.
RECURSIVE raiseToMin(_, _, _, _)
raiseToMin(parts, i, remainder, min) ==
  IF i > Len(parts) THEN [parts |-> parts, remainder |-> remainder]
  ELSE IF Below(parts[i], min) /\ remainder > 0
       THEN raiseToMin([parts EXCEPT ![i] = @ + 1], i, remainder - 1, min)
       ELSE raiseToMin(parts, i + 1, remainder, min)

\* parts.sort((a, b) => b - a), line 210
RECURSIVE sortNumbersDescending(_)
sortNumbersDescending(parts) ==
  IF parts = <<>> THEN <<>>
  ELSE LET k == CHOOSE i \in DOMAIN parts : \A j \in DOMAIN parts : parts[i] >= parts[j]
       IN <<parts[k]>> \o sortNumbersDescending(
            SubSeq(parts, 1, k - 1) \o SubSeq(parts, k + 1, Len(parts)))

\* Array.from({ length: count }, () => base), line 179
RECURSIVE arrayOf(_, _)
arrayOf(length, value) ==
  IF length <= 0 THEN <<>> ELSE Append(arrayOf(length - 1, value), value)

\* buildBalancedParts returns null.
NoParts == [null |-> TRUE, parts |-> <<>>]

\* buildBalancedParts, lines 168-211
buildBalancedParts(total, count, min, max) ==
  IF count <= 0 THEN NoParts
  ELSE IF \/ FracCmp(FracMul(FracInt(count), min), FracInt(total)) > 0
          \/ FracCmp(FracMul(FracInt(count), max), FracInt(total)) < 0
       THEN NoParts
  ELSE LET base == total \div count
           spread == raiseToRemainder(arrayOf(count, base), 1,
                                      total - base * count, max)
           lowered == lowerToMax(spread.parts, count, spread.remainder, max)
           raised == raiseToMin(lowered.parts, 1, lowered.remainder, min)
       IN IF raised.remainder # 0 THEN NoParts
          ELSE IF \E k \in DOMAIN raised.parts :
                    Below(raised.parts[k], min) \/ Above(raised.parts[k], max)
               THEN NoParts
               ELSE [null |-> FALSE, parts |-> sortNumbersDescending(raised.parts)]

\* Number.POSITIVE_INFINITY, line 225
Infinity == [n |-> 1, d |-> 0]
\* Line 233 with a later count of equal score taken as well.
scoreBelowOrEqual(score, bestScore) == bestScore = Infinity \/ FracCmp(score, bestScore) <= 0

\* score < bestScore, line 233
scoreBelow(score, bestScore) == bestScore = Infinity \/ FracCmp(score, bestScore) < 0

\* chooseDistrictSeatCounts, lines 229-236: one iteration of the for loop;
\* st is [best, bestScore].
tryCount(totalSeats, target, min, max, count, st) ==
  LET parts == buildBalancedParts(totalSeats, count, min, max) IN
  IF parts.null THEN st
  ELSE IF scoreBelow(scorePlan(parts.parts, target), st.bestScore)
       THEN [best |-> parts, bestScore |-> scorePlan(parts.parts, target)]
       ELSE st

\* Math.ceil(totalSeats / max), line 226
minCountOf(totalSeats, max) == FracCeil(FracDiv(FracInt(totalSeats), max))
\* line 227
maxCountOf(totalSeats, min, max) ==
  Max(minCountOf(totalSeats, max), FracFloor(FracDiv(FracInt(totalSeats), min)))

\* line 238 returning no district at all when nothing was feasible.
bestOrNothing(best, totalSeats) == IF best.null THEN <<>> ELSE best.parts

\* best ?? [totalSeats], line 238
bestOrWhole(best, totalSeats) == IF best.null THEN <<totalSeats>> ELSE best.parts

\* The for loop of lines 229-236 from count on.
RECURSIVE tryCounts(_, _, _, _, _, _, _)
tryCounts(totalSeats, target, min, max, count, maxCount, st) ==
  IF count > maxCount THEN st
  ELSE tryCounts(totalSeats, target, min, max, count + 1, maxCount,
                 tryCount(totalSeats, target, min, max, count, st))

\* chooseDistrictSeatCounts, lines 213-239
chooseDistrictSeatCounts(totalSeats, target, min, max) ==
  IF Below(totalSeats, min) THEN <<totalSeats>>
  ELSE bestOrWhole(
         tryCounts(totalSeats, target, min, max, minCountOf(totalSeats, max),
                   maxCountOf(totalSeats, min, max),
                   [best |-> NoParts, bestScore |-> Infinity]).best,
         totalSeats)

\* lines 255-261: the plan made of the seat counts; the district id
\* `${stateCode}-${index + 1}` is kept as the index.
planOf(stateCode, districtSeats) ==
  [stateCode |-> stateCode,
   districts |-> [k \in DOMAIN districtSeats |->
                    [districtId |-> k, seats |-> districtSeats[k]]]]

\* buildDistrictPlan, lines 243-262
buildDistrictPlan(stateCode, totalSeats, settings) ==
  LET safe == clampPRSettings(settings) IN
  planOf(stateCode,
         chooseDistrictSeatCounts(totalSeats, safe.districtSeatTarget,
                                  safe.minDistrictSeats, safe.maxDistrictSeats))

NoPlan == [stateCode |-> 0, districts |-> <<>>]

\* buildDistrictPlan up to the for loop of chooseDistrictSeatCounts (lines
\* 248, 219-227), or to its return when totalSeats < min (lines 219-224).
districtPlanCall ==
  /\ dpPc = "idle"
  /\ \E stateCode \in StateCodes, totalSeats \in 0..MaxPlanSeats,
        min \in MinSeatValues, max \in MaxSeatValues, target \in TargetSeatValues :
       \E settings \in {[DEFAULT_PR_SETTINGS EXCEPT
                            !.minDistrictSeats = Frac(min[1], min[2]),
                            !.maxDistrictSeats = Frac(max[1], max[2]),
                            !.districtSeatTarget = Frac(target[1], target[2])]} :
       \E safe \in {clampPRSettings(settings)} :
         /\ dpStateCode' = stateCode
         /\ dpTotal' = totalSeats
         /\ dpSettings' = settings
         /\ dpSafe' = safe
         /\ IF Below(totalSeats, safe.minDistrictSeats)
            THEN /\ dpPc' = "done"
                 /\ dpResult' = planOf(stateCode, <<totalSeats>>)
                 /\ dpCount' = 0
                 /\ dpMaxCount' = 0
            ELSE /\ dpPc' = "loop"
                 /\ dpResult' = NoPlan
                 /\ dpCount' = minCountOf(totalSeats, safe.maxDistrictSeats)
                 /\ dpMaxCount' = maxCountOf(totalSeats, safe.minDistrictSeats,
                                            safe.maxDistrictSeats)
  /\ dpBest' = NoParts
  /\ dpBestScore' = Infinity
  /\ dpTried' = <<>>

\* One iteration of the for loop, lines 229-236.
districtPlanTry ==
  /\ dpPc = "loop"
  /\ dpCount <= dpMaxCount
  /\ \E st \in {tryCount(dpTotal, dpSafe.districtSeatTarget, dpSafe.minDistrictSeats,
                          dpSafe.maxDistrictSeats, dpCount,
                          [best |-> dpBest, bestScore |-> dpBestScore])} :
       /\ dpBest' = st.best
       /\ dpBestScore' = st.bestScore
  /\ dpTried' = Append(dpTried,
       [count |-> dpCount,
        parts |-> buildBalancedParts(dpTotal, dpCount, dpSafe.minDistrictSeats,
                                     dpSafe.maxDistrictSeats)])
  /\ dpCount' = dpCount + 1
  /\ UNCHANGED <<dpPc, dpStateCode, dpTotal, dpSettings, dpSafe, dpMaxCount, dpResult>>

\* Lines 238 and 255-261: the loop is over, the plan is returned.
districtPlanReturn ==
  /\ dpPc = "loop"
  /\ dpCount > dpMaxCount
  /\ dpResult' = planOf(dpStateCode, bestOrWhole(dpBest, dpTotal))
  /\ dpPc' = "done"
  /\ UNCHANGED <<dpStateCode, dpTotal, dpSettings, dpSafe, dpCount, dpMaxCount, dpBest,
                 dpBestScore, dpTried>>

dpInit ==
  /\ dpPc = "idle"
  /\ dpStateCode = 0
  /\ dpTotal = 0
  /\ dpSettings = DEFAULT_PR_SETTINGS
  /\ dpSafe = DEFAULT_PR_SETTINGS
  /\ dpCount = 0
  /\ dpMaxCount = 0
  /\ dpBest = NoParts
  /\ dpBestScore = Infinity
  /\ dpTried = <<>>
  /\ dpResult = NoPlan

\* ------------------------------------------------- pr/metrics.ts
\* Lines 264-284 without the Math.max(0, ...) of line 270.
normalizeNumbersKeepNegative(input, partyIds) ==
  LET next == [p \in Range(partyIds) |->
                 IF p \in DOMAIN input THEN input[p] ELSE FracInt(0)]
      total == FracSumSeq([k \in DOMAIN partyIds |-> next[partyIds[k]]])
  IN IF FracCmp(total, FracInt(0)) <= 0
     THEN [p \in Range(partyIds) |->
             Frac(1, IF Len(partyIds) > 1 THEN Len(partyIds) ELSE 1)]
     ELSE [p \in Range(partyIds) |-> FracDiv(next[p], total)]

\* normalizeShares (pr/districtPlan.ts), lines 264-284, on shares that are
\* numbers of any kind (a normalized map is normalized again by its callers).
normalizeNumbers(input, partyIds) ==
  LET next == [p \in Range(partyIds) |->
                 FracMax(FracInt(0), IF p \in DOMAIN input THEN input[p] ELSE FracInt(0))]
      total == FracSumSeq([k \in DOMAIN partyIds |-> next[partyIds[k]]])
  IN IF FracCmp(total, FracInt(0)) <= 0
     THEN [p \in Range(partyIds) |->
             Frac(1, IF Len(partyIds) > 1 THEN Len(partyIds) ELSE 1)]
     ELSE [p \in Range(partyIds) |-> FracDiv(next[p], total)]

\* sharesFromSeats, lines 4-21
sharesFromSeats(seatsByParty_, partyIds) ==
  LET totalSeats == SumSeq([k \in DOMAIN partyIds |-> shareOf(seatsByParty_, partyIds[k])])
  IN IF totalSeats <= 0 THEN normalizeNumbers(<<>>, partyIds)
     ELSE [p \in Range(partyIds) |-> Frac(shareOf(seatsByParty_, p), totalSeats)]

\* Math.sqrt(x), kept as its argument: equal roots have equal arguments.
MathSqrt(x) == [sqrt |-> x]

\* Lines 23-34 with the differences summed as they are, not squared.
gallagherIndexUnsquared(voteShares, seatShares, partyIds) ==
  LET votes == normalizeNumbers(voteShares, partyIds)
      seats == normalizeNumbers(seatShares, partyIds)
      sumSquares == FracSumSeq([k \in DOMAIN partyIds |->
                      FracSub(seats[partyIds[k]], votes[partyIds[k]])])
  IN MathSqrt(FracMul(Frac(1, 2), sumSquares))

\* gallagherIndex, lines 23-35
gallagherIndex(voteShares, seatShares, partyIds) ==
  LET votes == normalizeNumbers(voteShares, partyIds)
      seats == normalizeNumbers(seatShares, partyIds)
      sumSquares == FracSumSeq([k \in DOMAIN partyIds |->
                      FracMul(FracSub(seats[partyIds[k]], votes[partyIds[k]]),
                              FracSub(seats[partyIds[k]], votes[partyIds[k]]))])
  IN MathSqrt(FracMul(Frac(1, 2), sumSquares))

\* wastedVotesProxy, lines 37-48
wastedVotesProxy(voteShares, seatShares, partyIds) ==
  LET votes == normalizeNumbers(voteShares, partyIds)
      seats == normalizeNumbers(seatShares, partyIds)
      represented == FracSumSeq([k \in DOMAIN partyIds |->
                       FracMin(votes[partyIds[k]], seats[partyIds[k]])])
  IN FracSub(FracInt(1), represented)

\* ------------------------------------------------- pr/simulate.ts
\* The sum of the character codes of a state code, line 486; the codes 1 and 2
\* stand for "AA" and "BB".
charCodeSum(stateCode) == 128 + 2 * stateCode

\* seed >>> 0 for a seed that is a whole number >= 0 (createSeededRng, part_004 line 147)
toWord(seed) == <<(seed \div 65536) % 65536, seed % 65536>>

\* Math.floor(rng() * 1_000_000_000), line 497, for rng() = word / 2^32: the
\* product word * 5^9 / 2^23 has at most 53 significant bits, so the double is exact.
ballotSeedOf(word) ==
  LET x == word[1] * 1381
      w == word[2] * 953 + (word[2] * 1381) \div 2048
  IN word[1] * 953 * 16 + x \div 128 + (32 * (x % 128) + w) \div 4096

\* Math.max(0, args.stateSeats[stateCode] ?? 0), line 462
totalSeatsOf(stateSeats, stateCode) ==
  Max(0, IF stateCode \in DOMAIN stateSeats THEN stateSeats[stateCode] ELSE 0)

\* Lines 464-466 rounding down.
topUpSeatsOfRoundedDown(totalSeats, safeSettings) ==
  IF safeSettings.useTopUp
  THEN Min(totalSeats, FracFloor(FracMul(FracInt(totalSeats), safeSettings.topUpSeatShare)))
  ELSE 0

\* lines 464-466
topUpSeatsOf(totalSeats, safeSettings) ==
  IF safeSettings.useTopUp
  THEN Min(totalSeats, MathRound(FracMul(FracInt(totalSeats), safeSettings.topUpSeatShare)))
  ELSE 0

\* cacheKey without the vote shares.
cacheKeyWithoutVotes(stateCode, stateSeats, voteShares, settings, districtPlan, partyIds) ==
  [s |-> stateCode, seats |-> stateSeats, votes |-> <<>>, set |-> settings,
   plan |-> districtPlan, parties |-> partyIds]

\* cacheKey, lines 424-439. JSON.stringify writes each finite number in one
\* way and keeps the order of keys and elements, so two keys are the same
\* string exactly when the six values are the same.
cacheKey(stateCode, stateSeats, voteShares, settings, districtPlan, partyIds) ==
  [s |-> stateCode, seats |-> stateSeats,
   votes |-> [k \in DOMAIN partyIds |-> <<partyIds[k], voteShares[partyIds[k]]>>],
   set |-> settings, plan |-> districtPlan, parties |-> partyIds]

\* mergeSeats, lines 450-454
mergeSeats(target, add) ==
  [p \in DOMAIN target \cup DOMAIN add |-> shareOf(target, p) + shareOf(add, p)]

\* allocateTopUpSeats (pr/topup.ts), lines 117-128, as a function: the for
\* loop from round i on.
RECURSIVE topUpRounds(_, _, _, _, _, _)
topUpRounds(ideal, districtSeatsByParty, topUp, partyIds, i, topUpSeats) ==
  IF ~(i < topUpSeats) THEN [threw |-> FALSE, topUp |-> topUp]
  ELSE IF partyIds = <<>> THEN [threw |-> TRUE, topUp |-> <<>>]
  ELSE topUpRounds(ideal, districtSeatsByParty,
         [topUp EXCEPT ![topUpWinner(ideal, districtSeatsByParty, topUp, partyIds)] = @ + 1],
         partyIds, i + 1, topUpSeats)

\* allocateTopUpSeats, lines 107-137, on vote shares that are numbers.
allocateTopUpSeats(partyIds, totalSeats, topUpSeats, voteShares, districtSeatsByParty) ==
  LET ideal == sainteLagueRounds(normalizeNumbers(voteShares, partyIds), partyIds,
                                 initSeats(partyIds), 0, totalSeats)
      rounds == IF ideal.threw THEN [threw |-> TRUE, topUp |-> <<>>]
                ELSE topUpRounds(ideal.seats, districtSeatsByParty, initSeats(partyIds),
                                 partyIds, 0, topUpSeats)
  IN IF rounds.threw THEN [threw |-> TRUE, result |-> NoTopUp]
     ELSE [threw |-> FALSE,
           result |-> topUpResult(partyIds, ideal.seats, districtSeatsByParty, rounds.topUp)]

\* initSeatMap, lines 441-448
initSeatMap(partyIds) == [p \in Range(partyIds) |-> 0]

NoStateResult == [stateCode |-> 0]

\* Lines 513-545: the result of the callback once the districts are counted;
\* cur holds the callback's locals.
stateResultOf(cur, partyIds, safeSettings) ==
  LET topUp == IF safeSettings.useTopUp /\ cur.topUpSeats > 0
               THEN allocateTopUpSeats(partyIds, cur.totalSeats, cur.topUpSeats,
                                       cur.voteShares, cur.districtSeatsByParty)
               ELSE [threw |-> FALSE,
                     result |-> [finalSeatsByParty |-> cur.districtSeatsByParty]]
      finalSeatsByParty == topUp.result.finalSeatsByParty
      seatShares == sharesFromSeats(finalSeatsByParty, partyIds)
  IN IF topUp.threw THEN [threw |-> TRUE, result |-> NoStateResult]
     ELSE [threw |-> FALSE,
           result |->
             [stateCode |-> cur.stateCode,
              totalSeats |-> cur.totalSeats,
              districtSeats |-> cur.districtSeatTotal,
              topUpSeats |-> cur.topUpSeats,
              voteShares |-> cur.voteShares,
              districtSeatsByParty |-> cur.districtSeatsByParty,
              finalSeatsByParty |-> finalSeatsByParty,
              gallagher |-> gallagherIndex(cur.voteShares, seatShares, partyIds),
              wastedVotesProxy |-> wastedVotesProxy(cur.voteShares, seatShares, partyIds),
              districtPlan |-> cur.districtPlan]]

\* The settings of the invocations below: one- and two-seat districts, the
\* smallest ballot count the clamp allows.
HybridSettings ==
  [DEFAULT_PR_SETTINGS EXCEPT !.minDistrictSeats = FracInt(1),
     !.maxDistrictSeats = FracInt(2), !.districtSeatTarget = FracInt(2),
     !.topUpSeatShare = Frac(3, 10), !.stvBallotsPerSeat = 100]

\* One invocation, and the invocations that differ from it in one argument.
\* parties holds the ids of args.parties, the only field that is read.
HybridBase ==
  [parties |-> <<1, 2>>,
   states |-> <<[stateCode |-> 1, partyShares |-> (1 :> 1 @@ 2 :> 1)]>>,
   stateSeats |-> (1 :> 3 @@ 2 :> 2),
   settings |-> HybridSettings,
   districtOverrides |-> <<>>]

Invocations ==
  {HybridBase,
   [HybridBase EXCEPT !.parties = <<2, 1>>],
   [HybridBase EXCEPT !.states = <<[stateCode |-> 2, partyShares |-> (1 :> 1 @@ 2 :> 1)]>>],
   [HybridBase EXCEPT !.states = <<[stateCode |-> 1, partyShares |-> (1 :> 2 @@ 2 :> 2)]>>],
   [HybridBase EXCEPT !.states = <<[stateCode |-> 1, partyShares |-> (1 :> 2 @@ 2 :> 1)]>>],
   [HybridBase EXCEPT !.states = <<[stateCode |-> 1, partyShares |-> (1 :> 2 @@ 2 :> 1)],
                                   [stateCode |-> 2, partyShares |-> (1 :> 1 @@ 2 :> 1)]>>],
   [HybridBase EXCEPT !.stateSeats = (2 :> 3)],
   [HybridBase EXCEPT !.stateSeats = (1 :> -1 @@ 2 :> 3)],
   [HybridBase EXCEPT !.settings = [HybridSettings EXCEPT !.useTopUp = FALSE]],
   [HybridBase EXCEPT !.settings = [HybridSettings EXCEPT !.topUpSeatShare = Frac(1, 2)]],
   [HybridBase EXCEPT !.settings = [HybridSettings EXCEPT !.randomSeed = 2025]],
   [HybridBase EXCEPT !.districtOverrides =
      (1 :> [stateCode |-> 1,
             districts |-> <<[districtId |-> 1, seats |-> 1,
                              partyShares |-> (1 :> FracInt(2) @@ 2 :> FracInt(0))]>>])]}

NoArgs == [parties |-> <<>>, states |-> <<>>, stateSeats |-> <<>>,
           settings |-> DEFAULT_PR_SETTINGS, districtOverrides |-> <<>>]
NoCallback == [stateCode |-> 0]
NoCheck == [hit |-> FALSE]

\* runHybridPRByState, lines 457-460: up to the first call of the map callback.
hybridCall ==
  /\ hyPc = "idle"
  /\ Cardinality(DOMAIN hyCache) <= MaxCached
  /\ \E args \in Invocations :
       /\ hyArgs' = args
       /\ hySafe' = clampPRSettings(args.settings)
  /\ hyI' = 0
  /\ hyOut' = <<>>
  /\ hyCur' = NoCallback
  /\ hyCheck' = NoCheck
  /\ hyPc' = "map"
  /\ UNCHANGED hyCache

\* The map callback, lines 461-487: up to the forEach over the districts, or
\* to the return of the cached result. After a hit the model still works
\* through lines 483-545 on the same locals, as a callback that found the cache
\* empty would, to have that result at hand next to the returned one.
hybridState ==
  /\ hyPc = "map"
  /\ hyI < Len(hyArgs.states)
  /\ \E stateVote \in {hyArgs.states[hyI + 1]}, partyIds \in {hyArgs.parties} :
     \E stateCode \in {stateVote.stateCode} :
     \E totalSeats \in {totalSeatsOf(hyArgs.stateSeats, stateCode)},
        voteShares \in {normalizeShares(stateVote.partyShares, partyIds)} :
     \E topUpSeats \in {topUpSeatsOf(totalSeats, hySafe)} :
     \E districtSeatTotal \in {Max(0, totalSeats - topUpSeats)} :
     \E districtPlan \in {IF stateCode \in DOMAIN hyArgs.districtOverrides
                          THEN hyArgs.districtOverrides[stateCode]
                          ELSE buildDistrictPlan(stateCode, districtSeatTotal, hySafe)} :
     \E key \in {cacheKey(stateCode, totalSeats, voteShares, hySafe, districtPlan,
                          partyIds)} :
       /\ hyCur' = [stateCode |-> stateCode, totalSeats |-> totalSeats,
                    voteShares |-> voteShares, topUpSeats |-> topUpSeats,
                    districtSeatTotal |-> districtSeatTotal,
                    districtPlan |-> districtPlan, key |-> key,
                    hit |-> key \in DOMAIN hyCache,
                    districtSeatsByParty |-> initSeatMap(partyIds),
                    t |-> toWord(hySafe.randomSeed + charCodeSum(stateCode)),
                    d |-> 0]
       /\ hyOut' = IF key \in DOMAIN hyCache THEN Append(hyOut, hyCache[key]) ELSE hyOut
  /\ hyPc' = "district"
  /\ UNCHANGED <<hyArgs, hySafe, hyI, hyCache, hyCheck>>

\* One district, lines 490-504: up to the for loop of generateRankedBallots.
hybridDistrict ==
  /\ hyPc = "district"
  /\ genPc = "idle"
  /\ stvPc = "idle"
  /\ hyCur.d < Len(hyCur.districtPlan.districts)
  /\ \E district \in {hyCur.districtPlan.districts[hyCur.d + 1]},
        partyIds \in {hyArgs.parties}, roll \in {rngCall(hyCur.t)} :
     \E seats \in {Max(1, district.seats)} :
     \E districtShares \in {normalizeNumbers(IF "partyShares" \in DOMAIN district
                                             THEN district.partyShares
                                             ELSE hyCur.voteShares, partyIds)} :
       /\ genPartyIds' = partyIds
       /\ genShares' = districtShares
       /\ genSeats' = seats
       /\ genCount' = Max(100, hySafe.stvBallotsPerSeat * seats)
       /\ genNormalized' = normalizeNumbers(districtShares, partyIds)
       /\ genCandidates' = buildCandidateSlate(partyIds, seats)
       /\ genSeed' = toWord(ballotSeedOf(roll.word))
       /\ genT' = toWord(ballotSeedOf(roll.word))
       /\ hyCur' = [hyCur EXCEPT !.t = roll.t]
  /\ genBallots' = <<>>
  /\ genPc' = "loop"
  /\ UNCHANGED <<hyPc, hyArgs, hySafe, hyI, hyOut, hyCache, hyCheck>>

\* runSTV has returned: the generator's and the counter's locals are gone.
forgetElection ==
  /\ genPc' = "idle"
  /\ genPartyIds' = <<>>
  /\ genShares' = <<>>
  /\ genSeats' = 0
  /\ genCount' = 0
  /\ genSeed' = <<0, 0>>
  /\ genNormalized' = <<>>
  /\ genCandidates' = <<>>
  /\ genT' = <<0, 0>>
  /\ genBallots' = <<>>
  /\ stvPc' = "idle"
  /\ stvSeats' = 0
  /\ stvCandidates' = <<>>
  /\ stvBallots' = <<>>
  /\ stvQuota' = 0
  /\ stvActive' = {}
  /\ stvElected' = <<>>
  /\ stvWeighted' = <<>>
  /\ stvResult' = NoSTVResult
  /\ stvRounds' = 0
  /\ stvRound' = NoRound
  /\ stvEliminated' = {}
  /\ stvRun' = 0
  /\ stvFirst' = [ballots |-> <<>>, result |-> NoSTVResult]

\* Line 510: the district's seats are merged into the state's.
hybridMerge ==
  /\ hyPc = "district"
  /\ stvPc = "done"
  /\ hyCur' = [hyCur EXCEPT
                 !.districtSeatsByParty = mergeSeats(@, stvResult.seatsByParty),
                 !.d = @ + 1]
  /\ forgetElection
  /\ UNCHANGED <<hyPc, hyArgs, hySafe, hyI, hyOut, hyCache, hyCheck>>

\* Lines 513-547: the districts are done; top-up, metrics, stateCache.set and
\* the return of the callback. allocateTopUpSeats may throw.
hybridFinish ==
  /\ hyPc = "district"
  /\ genPc = "idle"
  /\ stvPc = "idle"
  /\ hyCur.d >= Len(hyCur.districtPlan.districts)
  /\ \E made \in {stateResultOf(hyCur, hyArgs.parties, hySafe)} :
       IF made.threw
       THEN /\ hyPc' = "error"
            /\ UNCHANGED <<hyI, hyOut, hyCur, hyCache, hyCheck>>
       ELSE /\ hyCheck' = [hit |-> hyCur.hit, key |-> hyCur.key,
                           overridden |-> hyCur.stateCode \in DOMAIN hyArgs.districtOverrides,
                           returned |-> IF hyCur.hit THEN hyCache[hyCur.key]
                                        ELSE made.result,
                           fresh |-> made.result]
            /\ hyCache' = IF hyCur.hit THEN hyCache
                          ELSE (hyCur.key :> made.result) @@ hyCache
            /\ hyOut' = IF hyCur.hit THEN hyOut ELSE Append(hyOut, made.result)
            /\ hyI' = hyI + 1
            /\ hyCur' = NoCallback
            /\ hyPc' = "map"
  /\ UNCHANGED <<hyArgs, hySafe>>

\* Line 548: the map is over and the array of results is returned to the
\* caller; nothing but stateCache is kept.
hybridReturn ==
  /\ hyPc = "map"
  /\ hyI >= Len(hyArgs.states)
  /\ hyPc' = "idle"
  /\ hyArgs' = NoArgs
  /\ hySafe' = DEFAULT_PR_SETTINGS
  /\ hyI' = 0
  /\ hyOut' = <<>>
  /\ hyCur' = NoCallback
  /\ hyCheck' = NoCheck
  /\ UNCHANGED hyCache

hyInit ==
  /\ hyPc = "idle"
  /\ hyArgs = NoArgs
  /\ hySafe = DEFAULT_PR_SETTINGS
  /\ hyI = 0
  /\ hyOut = <<>>
  /\ hyCur = NoCallback
  /\ hyCache = <<>>
  /\ hyCheck = NoCheck

genInit ==
  /\ genPc = "idle"
  /\ genPartyIds = <<>>
  /\ genShares = <<>>
  /\ genSeats = 0
  /\ genCount = 0
  /\ genSeed = <<0, 0>>
  /\ genNormalized = <<>>
  /\ genCandidates = <<>>
  /\ genT = <<0, 0>>
  /\ genBallots = <<>>

stvInit ==
  /\ stvPc = "idle"
  /\ stvSeats = 0
  /\ stvCandidates = <<>>
  /\ stvBallots = <<>>
  /\ stvQuota = 0
  /\ stvActive = {}
  /\ stvElected = <<>>
  /\ stvWeighted = <<>>
  /\ stvResult = NoSTVResult
  /\ stvRounds = 0
  /\ stvRound = NoRound
  /\ stvEliminated = {}
  /\ stvRun = 0
  /\ stvFirst = [ballots |-> <<>>, result |-> NoSTVResult]

apInit ==
  /\ apPc = "idle"
  /\ apStates = <<>>
  /\ apPop = <<>>
  /\ apTotal = 0
  /\ apSeats = <<>>
  /\ apHeap = <<>>
  /\ apI = 0
  /\ apResult = NoResult
  /\ apAward = NoAward

\* ----------------------------------- normalizeShares called directly

\* The shares a caller may hand in for a party: negative, zero, a fraction, a
\* whole number; a party may also be missing from the map.
InputShares == {Frac(-1, 1), Frac(0, 1), Frac(1, 3), Frac(1, 1), Frac(2, 1)}

\* The share maps: any parties, listed or not, each with a share.
InputShareMaps == UNION {[present -> InputShares] : present \in SUBSET Parties}

\* normalizeShares, lines 264-284, called by itself.
normalizeCall ==
  /\ nsPc = "idle"
  /\ \E input \in InputShareMaps, partyIds \in Rosters :
       /\ nsInput' = input
       /\ nsPartyIds' = partyIds
       /\ nsResult' = normalizeNumbers(input, partyIds)
  /\ nsPc' = "done"

\* The caller has read the map; the next call starts afresh.
normalizeForget ==
  /\ nsPc = "done"
  /\ nsPc' = "idle"
  /\ nsInput' = <<>>
  /\ nsPartyIds' = <<>>
  /\ nsResult' = <<>>

nsInit ==
  /\ nsPc = "idle"
  /\ nsInput = <<>>
  /\ nsPartyIds = <<>>
  /\ nsResult = <<>>

\* ------------------------------------ gallagherIndex called directly

\* A share map over the listed parties, its whole numbers as numbers.
numbersOver(shares) == [p \in DOMAIN shares |-> FracInt(shares[p])]

\* gallagherIndex, lines 23-34, called for one vote vector and two seat
\* vectors.
gallagherCall ==
  /\ giPc = "idle"
  /\ \E partyIds \in Rosters :
     \E voteShares \in [Range(partyIds) -> ShareValues],
        seatsA \in [Range(partyIds) -> ShareValues],
        seatsB \in [Range(partyIds) -> ShareValues] :
       /\ giPartyIds' = partyIds
       /\ giVotes' = numbersOver(voteShares)
       /\ giSeats' = <<numbersOver(seatsA), numbersOver(seatsB)>>
       /\ giIndex' = <<gallagherIndex(numbersOver(voteShares), numbersOver(seatsA), partyIds),
                       gallagherIndex(numbersOver(voteShares), numbersOver(seatsB), partyIds)>>
  /\ giPc' = "done"

\* The caller has read the two indices; the next call starts afresh.
gallagherForget ==
  /\ giPc = "done"
  /\ giPc' = "idle"
  /\ giVotes' = <<>>
  /\ giPartyIds' = <<>>
  /\ giSeats' = <<>>
  /\ giIndex' = <<>>

giInit ==
  /\ giPc = "idle"
  /\ giVotes = <<>>
  /\ giPartyIds = <<>>
  /\ giSeats = <<>>
  /\ giIndex = <<>>

\* ------------------------------------------------- lib/elections.ts

\* ELECTIONS, lines 29-121.
ELECTIONS ==
  (2016 :> [demWinners |-> {"CA", "CO", "CT", "DC", "DE", "HI", "IL", "MA", "MD", "ME",
                            "MN", "NH", "NJ", "NM", "NV", "NY", "OR", "RI", "VA", "VT",
                            "WA"},
            splitStates |-> [ME |-> [districtDemWins |-> 1, districtCount |-> 2],
                             NE |-> [districtDemWins |-> 0, districtCount |-> 3]]])
  @@
  (2020 :> [demWinners |-> {"AZ", "CA", "CO", "CT", "DC", "DE", "GA", "HI", "IL", "MA",
                            "MD", "ME", "MI", "MN", "NH", "NJ", "NM", "NV", "NY", "OR",
                            "PA", "RI", "VA", "VT", "WA", "WI"},
            splitStates |-> [ME |-> [districtDemWins |-> 1, districtCount |-> 2],
                             NE |-> [districtDemWins |-> 1, districtCount |-> 3]]])
  @@
  (2024 :> [demWinners |-> {"CA", "CO", "CT", "DC", "DE", "HI", "IL", "MA", "MD", "ME",
                            "MN", "NH", "NJ", "NM", "NY", "OR", "RI", "VA", "VT", "WA"},
            splitStates |-> [ME |-> [districtDemWins |-> 1, districtCount |-> 2],
                             NE |-> [districtDemWins |-> 1, districtCount |-> 3]]])

\* The years replayed, line 150.
ReplayedYears == <<2016, 2020, 2024>>

\* The jurisdictions of the maps replayed here: one that every year gives to
\* the democrats, one that every year gives to the republicans, one that
\* changes hands, and the two that split their votes.
EcStates == {"CA", "TX", "GA", "ME", "NE"}

\* The per-state metrics maps: any subset of the jurisdictions, each with its
\* electoral votes.  Of a StateMetrics only ecVotes is read.
MetricsMaps == UNION {[present -> 0..MaxEcVotes] : present \in SUBSET EcStates}

\* hamiltonAllocation of lib/overlays.ts, lines 12-42, as one value: the
\* floors, then one seat per turn of the while loop down the sorted
\* remainders, idx wrapping around.
hamiltonAllocationOf(totalSeats, partyAShare) ==
  LET rawA == FracMul(FracInt(totalSeats), partyAShare)
      rawB == FracMul(FracInt(totalSeats), FracSub(FracInt(1), partyAShare))
      baseA == FracFloor(rawA)
      baseB == FracFloor(rawB)
      remainders == sortDescending(<<[party |-> "A", value |-> FracPart(rawA)],
                                     [party |-> "B", value |-> FracPart(rawB)]>>)
      turns == 0..(totalSeats - (baseA + baseB) - 1)
      awards(party) ==
        Cardinality({idx \in turns : remainders[(idx % Len(remainders)) + 1].party = party})
  IN  [partyA |-> baseA + awards("A"), partyB |-> baseB + awards("B")]

\* Lines 129-139 with the district votes halved whatever the recorded wins.
allocateSplitEvenly(districtVotes, districtDemWins, districtCount) ==
  IF districtVotes <= 0 THEN [dem |-> 0, rep |-> 0]
  ELSE IF districtCount <= 0 THEN [dem |-> 0, rep |-> districtVotes]
  ELSE LET allocation == hamiltonAllocationOf(districtVotes, Frac(1, 2))
       IN  [dem |-> allocation.partyA, rep |-> allocation.partyB]

\* allocateSplitDistrictVotes, lines 129-139.
allocateSplitDistrictVotes(districtVotes, districtDemWins, districtCount) ==
  IF districtVotes <= 0 THEN [dem |-> 0, rep |-> 0]
  ELSE IF districtCount <= 0 THEN [dem |-> 0, rep |-> districtVotes]
  ELSE LET demShare == FracMin(FracInt(1),
                               FracMax(FracInt(0), Frac(districtDemWins, districtCount)))
           allocation == hamiltonAllocationOf(districtVotes, demShare)
       IN  [dem |-> allocation.partyA, rep |-> allocation.partyB]

\* Lines 156-183 with two at-large votes whatever the jurisdiction has
\* (lines 162-163 without Math.min).
votesOfStateTwoAtLarge(config, abbr, votes) ==
  IF abbr = "ME" \/ abbr = "NE"
  THEN LET districtVotes == Max(0, votes - 2)
           atLargeToDem == abbr \in config.demWinners
           atLarge == 2
           districts ==
             IF abbr \in DOMAIN config.splitStates
             THEN allocateSplitDistrictVotes(districtVotes,
                                             config.splitStates[abbr].districtDemWins,
                                             config.splitStates[abbr].districtCount)
             ELSE IF atLargeToDem THEN [dem |-> districtVotes, rep |-> 0]
             ELSE [dem |-> 0, rep |-> districtVotes]
       IN  [dem |-> (IF atLargeToDem THEN atLarge ELSE 0) + districts.dem,
            rep |-> (IF atLargeToDem THEN 0 ELSE atLarge) + districts.rep]
  ELSE IF abbr \in config.demWinners THEN [dem |-> votes, rep |-> 0]
  ELSE [dem |-> 0, rep |-> votes]

\* The forEach callback, lines 156-183: what one jurisdiction adds to the two
\* totals of a year.
votesOfState(config, abbr, votes) ==
  IF abbr = "ME" \/ abbr = "NE"
  THEN LET districtVotes == Max(0, votes - 2)
           atLargeToDem == abbr \in config.demWinners
           atLarge == Min(2, votes)
           districts ==
             IF abbr \in DOMAIN config.splitStates
             THEN allocateSplitDistrictVotes(districtVotes,
                                             config.splitStates[abbr].districtDemWins,
                                             config.splitStates[abbr].districtCount)
             ELSE IF atLargeToDem THEN [dem |-> districtVotes, rep |-> 0]
             ELSE [dem |-> 0, rep |-> districtVotes]
       IN  [dem |-> (IF atLargeToDem THEN atLarge ELSE 0) + districts.dem,
            rep |-> (IF atLargeToDem THEN 0 ELSE atLarge) + districts.rep]
  ELSE IF abbr \in config.demWinners THEN [dem |-> votes, rep |-> 0]
  ELSE [dem |-> 0, rep |-> votes]

\* The forEach of lines 156-183 over the entries of the map.  The totals are
\* sums of whole numbers, so the order of the entries does not matter.
RECURSIVE votesOfYear(_, _, _)
votesOfYear(config, metricsByState, abbrs) ==
  IF abbrs = {} THEN [dem |-> 0, rep |-> 0]
  ELSE LET abbr == CHOOSE a \in abbrs : TRUE
           here == votesOfState(config, abbr, metricsByState[abbr])
           rest == votesOfYear(config, metricsByState, abbrs \ {abbr})
       IN  [dem |-> here.dem + rest.dem, rep |-> here.rep + rest.rep]

\* Line 190.
winnerOf(democrats, republicans, majority) ==
  IF democrats >= majority THEN "D" ELSE "R"

\* computeHistoricalEcOutcomes, lines 141-148: the total and the majority.
ecCall ==
  /\ ecPc = "idle"
  /\ \E metricsByState \in MetricsMaps :
       /\ ecMetrics' = metricsByState
       /\ ecTotal' = SumOver(metricsByState, DOMAIN metricsByState)
       /\ ecMajority' = (SumOver(metricsByState, DOMAIN metricsByState) \div 2) + 1
  /\ ecOut' = <<>>
  /\ ecPc' = "years"

\* The map callback of lines 150-192 for the next year.
ecYear ==
  /\ ecPc = "years"
  /\ Len(ecOut) < Len(ReplayedYears)
  /\ \E year \in {ReplayedYears[Len(ecOut) + 1]} :
     \E totals \in {votesOfYear(ELECTIONS[year], ecMetrics, DOMAIN ecMetrics)} :
       ecOut' = Append(ecOut, [year |-> year,
                               democrats |-> totals.dem,
                               republicans |-> totals.rep,
                               majority |-> ecMajority,
                               winner |-> winnerOf(totals.dem, totals.rep, ecMajority)])
  /\ UNCHANGED <<ecPc, ecMetrics, ecTotal, ecMajority>>

\* The array of the three outcomes is returned.
ecReturn ==
  /\ ecPc = "years"
  /\ Len(ecOut) = Len(ReplayedYears)
  /\ ecPc' = "done"
  /\ UNCHANGED <<ecMetrics, ecTotal, ecMajority, ecOut>>

\* The caller has read the outcomes; the next call starts afresh.
ecForget ==
  /\ ecPc = "done"
  /\ ecPc' = "idle"
  /\ ecMetrics' = <<>>
  /\ ecTotal' = 0
  /\ ecMajority' = 0
  /\ ecOut' = <<>>

ecInit ==
  /\ ecPc = "idle"
  /\ ecMetrics = <<>>
  /\ ecTotal = 0
  /\ ecMajority = 0
  /\ ecOut = <<>>

Init == apInit /\ stvInit /\ genInit /\ ovInit /\ slInit /\ tuInit /\ dpInit /\ hyInit /\ ecInit /\ nsInit /\ giInit

ApNext ==
  \/ apportionCall /\ UNCHANGED <<stvVars, genVars, laterVars>>
  \/ apportionPush /\ UNCHANGED <<stvVars, genVars, laterVars>>
  \/ apportionAward /\ UNCHANGED <<stvVars, genVars, laterVars>>
  \/ apportionReturn /\ UNCHANGED <<stvVars, genVars, laterVars>>

\* The apportionment engine on its own.
SpecApportion == Init /\ [][ApNext]_vars

StvNext ==
  \/ callerSlate /\ UNCHANGED <<apVars, genVars, laterVars>>
  \/ callerCast /\ UNCHANGED <<apVars, genVars, laterVars>>
  \/ stvCallDirect /\ UNCHANGED <<apVars, genVars, laterVars>>
  \/ stvRoundFill /\ UNCHANGED <<apVars, genVars, laterVars>>
  \/ stvRoundElect /\ UNCHANGED <<apVars, genVars, laterVars>>
  \/ stvRoundEliminate /\ UNCHANGED <<apVars, genVars, laterVars>>

\* The ranked-choice counter called directly.
SpecSTV == Init /\ [][StvNext]_vars

StvTwiceNext ==
  \/ callerSlate /\ UNCHANGED <<apVars, genVars, laterVars>>
  \/ callerCast /\ UNCHANGED <<apVars, genVars, laterVars>>
  \/ stvCallDirect /\ UNCHANGED <<apVars, genVars, laterVars>>
  \/ stvRoundFill /\ UNCHANGED <<apVars, genVars, laterVars>>
  \/ stvRoundElect /\ UNCHANGED <<apVars, genVars, laterVars>>
  \/ stvRoundEliminate /\ UNCHANGED <<apVars, genVars, laterVars>>
  \/ stvCallAgain /\ UNCHANGED <<apVars, genVars, laterVars>>

\* The ranked-choice counter called directly, then called again on the same
\* seats, candidates and ballot objects.
SpecSTVTwice == Init /\ [][StvTwiceNext]_vars

BallotsNext ==
  \/ generateCall /\ UNCHANGED <<apVars, stvVars, laterVars>>
  \/ generateBallot /\ UNCHANGED <<apVars, stvVars, laterVars>>
  \/ generateReturn /\ UNCHANGED <<apVars, stvVars, laterVars>>
  \/ stvCallGenerated /\ UNCHANGED <<apVars, genVars, laterVars>>
  \/ stvRoundFill /\ UNCHANGED <<apVars, genVars, laterVars>>
  \/ stvRoundElect /\ UNCHANGED <<apVars, genVars, laterVars>>
  \/ stvRoundEliminate /\ UNCHANGED <<apVars, genVars, laterVars>>

\* The ballot generator, and the ranked-choice counter on what it generated.
SpecBallots == Init /\ [][BallotsNext]_vars

\* What each of the later components leaves alone.
exceptOv == <<apVars, stvVars, genVars, slVars, tuVars, dpVars, hyVars, ecVars, nsVars, giVars>>
exceptSl == <<apVars, stvVars, genVars, ovVars, tuVars, dpVars, hyVars, ecVars, nsVars, giVars>>
exceptTu == <<apVars, stvVars, genVars, ovVars, slVars, dpVars, hyVars, ecVars, nsVars, giVars>>
exceptHy == <<apVars, ovVars, slVars, tuVars, dpVars, ecVars, nsVars, giVars>>
exceptEc == <<apVars, stvVars, genVars, ovVars, slVars, tuVars, dpVars, hyVars, nsVars, giVars>>
exceptDp == <<apVars, stvVars, genVars, ovVars, slVars, tuVars, hyVars, ecVars, nsVars, giVars>>
exceptNs == <<apVars, stvVars, genVars, ovVars, slVars, tuVars, dpVars, hyVars, ecVars, giVars>>
exceptGi == <<apVars, stvVars, genVars, ovVars, slVars, tuVars, dpVars, hyVars, ecVars, nsVars>>

OverlayNext ==
  \/ hamiltonAllocationCall /\ UNCHANGED exceptOv
  \/ hamiltonAward /\ UNCHANGED exceptOv
  \/ hamiltonReturn /\ UNCHANGED exceptOv
  \/ hamiltonThreePartyCall /\ UNCHANGED exceptOv
  \/ hamiltonThreePartyAward /\ UNCHANGED exceptOv
  \/ hamiltonThreePartyReturn /\ UNCHANGED exceptOv

\* The Hamilton (largest remainder) allocations of the overlays.
SpecOverlays == Init /\ [][OverlayNext]_vars

SainteLagueNext ==
  \/ sainteLagueCall /\ UNCHANGED exceptSl
  \/ sainteLagueAward /\ UNCHANGED exceptSl
  \/ sainteLagueReturn /\ UNCHANGED exceptSl

\* The Sainte-Lague allocation on its own.
SpecSainteLague == Init /\ [][SainteLagueNext]_vars

TopUpNext ==
  \/ topUpCall /\ UNCHANGED exceptTu
  \/ topUpAward /\ UNCHANGED exceptTu
  \/ topUpReturn /\ UNCHANGED exceptTu

\* The top-up allocator on its own.
SpecTopUp == Init /\ [][TopUpNext]_vars

DistrictPlanNext ==
  \/ districtPlanCall /\ UNCHANGED exceptDp
  \/ districtPlanTry /\ UNCHANGED exceptDp
  \/ districtPlanReturn /\ UNCHANGED exceptDp

\* The district plan builder on its own.
SpecDistrictPlan == Init /\ [][DistrictPlanNext]_vars

HybridNext ==
  \/ hybridCall /\ UNCHANGED <<exceptHy, genVars, stvVars>>
  \/ hybridState /\ UNCHANGED <<exceptHy, genVars, stvVars>>
  \/ hybridDistrict /\ UNCHANGED <<exceptHy, stvVars>>
  \/ generateBallot /\ UNCHANGED <<apVars, stvVars, laterVars>>
  \/ generateReturn /\ UNCHANGED <<apVars, stvVars, laterVars>>
  \/ stvCallGenerated /\ UNCHANGED <<apVars, genVars, laterVars>>
  \/ stvRoundFill /\ UNCHANGED <<apVars, genVars, laterVars>>
  \/ stvRoundElect /\ UNCHANGED <<apVars, genVars, laterVars>>
  \/ stvRoundEliminate /\ UNCHANGED <<apVars, genVars, laterVars>>
  \/ hybridMerge /\ UNCHANGED exceptHy
  \/ hybridFinish /\ UNCHANGED <<exceptHy, genVars, stvVars>>
  \/ hybridReturn /\ UNCHANGED <<exceptHy, genVars, stvVars>>

\* The orchestrator over a cache that persists from invocation to invocation.
SpecHybrid == Init /\ [][HybridNext]_vars

ElectionsNext ==
  \/ ecCall /\ UNCHANGED exceptEc
  \/ ecYear /\ UNCHANGED exceptEc
  \/ ecReturn /\ UNCHANGED exceptEc
  \/ ecForget /\ UNCHANGED exceptEc

\* The historical replay called with one metrics map after another.
SpecElections == Init /\ [][ElectionsNext]_vars

NormalizeNext ==
  \/ normalizeCall /\ UNCHANGED exceptNs
  \/ normalizeForget /\ UNCHANGED exceptNs

\* normalizeShares called with one share map and party list after another.
SpecNormalize == Init /\ [][NormalizeNext]_vars

GallagherNext ==
  \/ gallagherCall /\ UNCHANGED exceptGi
  \/ gallagherForget /\ UNCHANGED exceptGi

\* gallagherIndex called for one vote vector and two seat vectors at a time.
SpecGallagher == Init /\ [][GallagherNext]_vars

\* ------------------------------------------------------------ claims
ResultSum == SumOver(apResult.seats, DOMAIN apResult.seats)

\* C1 as stated: for every population map and every total >= the number of
\* states, the returned seats sum to total and every state has at least 1.
C1_SumAndFloorEveryMap ==
  apPc = "done" =>
    /\ ResultSum = apTotal
    /\ \A s \in DOMAIN apResult.seats : apResult.seats[s] >= 1

\* C1 amended: for every non-empty population map and every total >= the
\* number of states, the returned seats sum to total and every state has at
\* least 1 seat.
C1_SumAndFloor ==
  (apPc = "done" /\ Len(apStates) >= 1) =>
    /\ ResultSum = apTotal
    /\ \A s \in DOMAIN apResult.seats : apResult.seats[s] >= 1

C1_Witness ==
  /\ apPc = "done"
  /\ Len(apStates) >= 2
  /\ apTotal >= Len(apStates) + 2
  /\ ResultSum = apTotal
  /\ \E s \in DOMAIN apResult.seats : apResult.seats[s] >= 3

\* C2: with total below the number of states apportion throws and returns
\* nothing, and whatever it returns never holds a state with fewer than 1 seat.
C2_ThrowsBelowStateCount ==
  /\ (apPc # "idle" /\ apTotal < Len(apStates)) =>
        (apPc = "error" /\ apResult = NoResult)
  /\ apResult.returned => \A s \in DOMAIN apResult.seats : apResult.seats[s] >= 1

C2_Witness ==
  /\ apPc = "error"
  /\ Len(apStates) >= 2
  /\ apTotal < Len(apStates)
  /\ apResult = NoResult

\* C3 as stated: when the awarded state is tied on priority with other states
\* in the heap, the awarded state is the one whose code sorts later.
C3_TieGoesToLaterCode ==
  \A t \in apAward.tied : apAward.state > t

\* C3 amended: when the awarded state is tied on priority with other states in
\* the heap, the awarded state is the one whose code sorts earlier.
C3_TieGoesToEarlierCode ==
  \A t \in apAward.tied : apAward.state < t

C3_Witness ==
  /\ apAward.state # 0
  /\ apAward.tied # {}
  /\ apSeats[apAward.state] >= 3

StvIds == {stvCandidates[i].id : i \in DOMAIN stvCandidates}

\* C4: the count ends within |candidates| iterations of the loop: every
\* iteration but the last removes at least one candidate from the active set
\* (so the iterations made plus the candidates still active never exceed the
\* slate), and the loop is only ever in progress with a candidate to remove.
C4_EndsWithinSlate ==
  /\ stvRounds <= Len(stvCandidates)
  /\ stvPc = "loop" =>
       /\ stvRounds + Cardinality(stvActive) <= Len(stvCandidates)
       /\ stvActive # {}
       /\ Len(stvElected) < stvSeats

C4_Witness ==
  /\ stvPc = "done"
  /\ Len(stvCandidates) = 3
  /\ stvRounds = 3
  /\ Len(stvBallots) >= 2

\* C5 as stated, for the iterations that tally (lines 365-382): exactly one
\* candidate leaves the active set, elected alone or eliminated alone.
C5_ExactlyOneLeaves ==
  stvRound.kind \in {"elect", "eliminate"} =>
    /\ Cardinality(stvRound.removed) = 1
    /\ stvRound.kind = "elect" => Len(stvRound.electedNow) = 1
    /\ stvRound.kind = "eliminate" => stvRound.electedNow = <<>>

\* C5 amended: an iteration that tallies removes at least one candidate from
\* the active set: it elects one or more candidates, all at or above quota, and
\* removes exactly those, or it elects nobody and eliminates exactly one; the
\* final iteration that fills the remaining seats removes nobody.
C5_AtLeastOneLeaves ==
  /\ stvRound.kind = "elect" =>
       /\ Len(stvRound.electedNow) >= 1
       /\ stvRound.removed = Range(stvRound.electedNow)
       /\ \A c \in stvRound.removed :
            FracCmp(stvRound.totals[c], FracInt(stvQuota)) >= 0
  /\ stvRound.kind = "eliminate" =>
       /\ stvRound.electedNow = <<>>
       /\ Cardinality(stvRound.removed) = 1
       /\ \A c \in DOMAIN stvRound.totals :
            FracCmp(stvRound.totals[c], FracInt(stvQuota)) < 0
  /\ stvRound.kind = "fill" => stvRound.removed = {}

C5_Witness ==
  /\ stvRound.kind = "elect"
  /\ Len(stvRound.electedNow) = 2
  /\ Cardinality(stvRound.removed) = 2

\* C6: the ids returned are exactly `seats` distinct candidates of the slate
\* when the slate holds at least `seats` candidates, and the whole slate
\* otherwise; never more than `seats`, never a duplicate, never an eliminated
\* candidate.
C6_ElectedIds ==
  stvPc = "done" =>
    LET ids == stvResult.electedCandidateIds IN
    /\ Len(stvCandidates) >= stvSeats => Len(ids) = stvSeats
    /\ Len(stvCandidates) < stvSeats => Range(ids) = StvIds
    /\ Len(ids) <= stvSeats
    /\ Cardinality(Range(ids)) = Len(ids)
    /\ Range(ids) \subseteq StvIds
    /\ Range(ids) \cap stvEliminated = {}

C6_Witness ==
  /\ stvPc = "done"
  /\ Len(stvCandidates) = 3
  /\ stvSeats = 2
  /\ Len(stvResult.electedCandidateIds) = 2
  /\ stvEliminated # {}

FullParties == {p \in Range(genPartyIds) : genShares[p] = 1}
WinnerTakesAllShares ==
  /\ genPc # "idle"
  /\ Cardinality(FullParties) = 1
  /\ \A p \in Range(genPartyIds) \ FullParties : genShares[p] = 0

\* C9: with one party at 100% and every other party at 0%, whatever the seed
\* and the order of the roster, no generated ballot ranks a candidate of a
\* zero-share party first, and the count of the generated ballots gives every
\* seat to the 100% party and none to any other party.
C9_ZeroShareGetsNothing ==
  WinnerTakesAllShares =>
    /\ \A i \in DOMAIN genBallots :
         \E k \in DOMAIN genCandidates :
           /\ genCandidates[k].id = genBallots[i].ranking[1]
           /\ genCandidates[k].partyId \in FullParties
    /\ (stvPc = "done" /\ stvResult.returned) =>
         \A p \in Range(genPartyIds) :
           stvResult.seatsByParty[p] = IF p \in FullParties THEN genSeats ELSE 0

\* C10: every generated ballot has weight 1 and ranks each candidate of the
\* slate exactly once, and the slate holds seats + 1 candidates for each party
\* of the roster, no two with the same id.
C10_BallotsRankTheSlate ==
  genPc # "idle" =>
    /\ \A i \in DOMAIN genBallots :
         /\ genBallots[i].weight = 1
         /\ Len(genBallots[i].ranking) = Len(genCandidates)
         /\ Range(genBallots[i].ranking) = {genCandidates[k].id : k \in DOMAIN genCandidates}
    /\ \A k \in DOMAIN genCandidates : genCandidates[k].partyId \in Range(genPartyIds)
    /\ \A p \in Range(genPartyIds) :
         Cardinality({k \in DOMAIN genCandidates : genCandidates[k].partyId = p})
           = genSeats + 1
    /\ \A j, k \in DOMAIN genCandidates :
         j # k => genCandidates[j].id # genCandidates[k].id

C10_Witness ==
  /\ genPc = "done"
  /\ Len(genPartyIds) = 3
  /\ genSeats = 2
  /\ Len(genBallots) = 2
  /\ genBallots[1].ranking # genBallots[2].ranking
  /\ genBallots[1].ranking[1] # genCandidates[1].id

\* C11: hamiltonAllocation returns partyA + partyB = totalSeats for every
\* total >= 0 and every share in [0, 1].
C11_TwoPartySum ==
  (ovFn = "two" /\ ovResult.returned) =>
    ovResult.seats.partyA + ovResult.seats.partyB = ovTotal

C11_Witness ==
  /\ ovFn = "two"
  /\ ovResult.returned
  /\ ovTotal = 3
  /\ ovIdx = 1
  /\ ovResult.seats.partyA = 2
  /\ ovRemainders[1].value = ovRemainders[2].value

\* The shares the three-party allocation works with, as the specification
\* describes them: clamped to [0, 1], renormalized when they sum to more than
\* 1, the baseline (republicans) getting what is left.
ThreePartyEntitlement ==
  LET d == FracMin(FracInt(1), FracMax(FracInt(0), ovShares[1]))
      i == FracMin(FracInt(1), FracMax(FracInt(0), ovShares[2]))
      over == FracCmp(FracAdd(d, i), FracInt(1)) > 0
      nd == IF over THEN FracDiv(d, FracAdd(d, i)) ELSE d
      ni == IF over THEN FracDiv(i, FracAdd(d, i)) ELSE i
  IN [democrats |-> FracMul(FracInt(ovTotal), nd),
      republicans |-> FracMul(FracInt(ovTotal), FracSub(FracInt(1), FracAdd(nd, ni))),
      independents |-> FracMul(FracInt(ovTotal), ni)]

ThreePartyRank == [democrats |-> 1, republicans |-> 2, independents |-> 3]

\* C12: hamiltonThreePartyAllocation returns seats summing to totalSeats; each
\* party gets the floor of its entitlement or one more, and a party that gets
\* the extra seat has a larger remainder than any party that does not, or an
\* equal one and an earlier place in the order democrats, republicans,
\* independents.
C12_ThreePartySum ==
  (ovFn = "three" /\ ovResult.returned) =>
    LET seats == ovResult.seats
        due == ThreePartyEntitlement
        parties == {"democrats", "republicans", "independents"}
    IN /\ seats.democrats + seats.republicans + seats.independents = ovTotal
       /\ \A q \in parties : seats[q] \in {FracFloor(due[q]), FracFloor(due[q]) + 1}
       /\ \A q, r \in parties :
            (seats[q] = FracFloor(due[q]) + 1 /\ seats[r] = FracFloor(due[r])) =>
              \/ FracCmp(FracPart(due[q]), FracPart(due[r])) > 0
              \/ /\ FracCmp(FracPart(due[q]), FracPart(due[r])) = 0
                 /\ ThreePartyRank[q] < ThreePartyRank[r]

C12_Witness ==
  /\ ovFn = "three"
  /\ ovResult.returned
  /\ ovIdx = 1
  /\ FracCmp(FracAdd(ovShares[1], ovShares[2]), FracInt(1)) > 0
  /\ ovRemainders[1].value = ovRemainders[2].value
  /\ ovRemainders[1].value # FracInt(0)

\* What allocateSainteLague does once called: it never throws, its seats
\* always sum to the number of rounds made, the winner of the last round had
\* the maximum quotient (the first id among equals), and it returns after
\* exactly totalSeats rounds.
SainteLagueAwardsTotal ==
  /\ slPc # "error"
  /\ slPc \in {"loop", "done"} => SumOver(slSeats, Range(slPartyIds)) = slI
  /\ slResult.returned =>
       /\ slI = slTotal
       /\ SumOver(slResult.seats, Range(slPartyIds)) = slTotal
  /\ slRound.winner # NoParty =>
       /\ slSeats = [slRound.before EXCEPT ![slRound.winner] = @ + 1]
       /\ \A q \in Range(slPartyIds) :
            LET c == FracCmp(quotient(slNormalized, slRound.before, slRound.winner),
                             quotient(slNormalized, slRound.before, q))
            IN c > 0 \/ (c = 0 /\ slRound.winner <= q)

\* C13 as stated: for every party list, allocateSainteLague awards exactly
\* totalSeats seats, one per round, each to the party with the maximum
\* quotient, ties going to the first party id.
C13_AwardsTotalAnyList == SainteLagueAwardsTotal

\* C13: for a non-empty party list, allocateSainteLague awards exactly
\* totalSeats seats, one per round, each to the party with the maximum quotient
\* normalizedShare / (2 * seatsSoFar + 1), ties going to the first party id.
C13_AwardsTotal == slPartyIds # <<>> => SainteLagueAwardsTotal

C13_Witness ==
  /\ slResult.returned
  /\ Len(slPartyIds) = 3
  /\ slTotal = 4
  /\ \E i, j \in DOMAIN slPartyIds :
       /\ i < j
       /\ slPartyIds[j] = slRound.winner
       /\ FracCmp(quotient(slNormalized, slRound.before, slRound.winner),
                  quotient(slNormalized, slRound.before, slPartyIds[i])) = 0
  /\ \E q \in Range(slPartyIds) : slNormalized[q] # slNormalized[slRound.winner]

\* What allocateTopUpSeats does once called: it never throws, the top-up
\* seats awarded so far number the rounds made, the winner of the last round
\* had the largest deficit (the first id among equals), and it returns after
\* exactly topUpSeats rounds with district + top-up seats as final seats.
TopUpAwardsBudget ==
  /\ tuPc # "error"
  /\ tuPc \in {"loop", "done"} => SumOver(tuTopUp, Range(tuPartyIds)) = tuI
  /\ tuResult.returned =>
       /\ SumOver(tuResult.topUpSeatsByParty, Range(tuPartyIds)) = tuTopUpSeats
       /\ \A q \in Range(tuPartyIds) :
            tuResult.finalSeatsByParty[q] = tuDistrict[q] + tuResult.topUpSeatsByParty[q]
  /\ tuRound.winner # NoParty =>
       /\ tuTopUp = [tuRound.before EXCEPT ![tuRound.winner] = @ + 1]
       /\ \A q \in Range(tuPartyIds) :
            LET dw == tuIdeal[tuRound.winner] - tuDistrict[tuRound.winner]
                        - tuRound.before[tuRound.winner]
                dq == tuIdeal[q] - tuDistrict[q] - tuRound.before[q]
            IN dw > dq \/ (dw = dq /\ tuRound.winner <= q)

\* C14 as stated: for every party list, allocateTopUpSeats awards exactly
\* topUpSeats seats, each to the party with the largest deficit at that moment
\* (ties by ascending id), and final seats are district plus top-up seats.
C14_AwardsBudgetAnyList == TopUpAwardsBudget

\* C14: for a non-empty party list, allocateTopUpSeats awards exactly
\* topUpSeats seats, each to the party with the largest deficit
\* ideal - districtSeats - topUpAwardedSoFar at that moment (ties by ascending
\* id), and final seats are district plus top-up seats.
C14_AwardsBudget == tuPartyIds # <<>> => TopUpAwardsBudget

C14_Witness ==
  /\ tuResult.returned
  /\ Len(tuPartyIds) = 3
  /\ tuTopUpSeats = 2
  /\ \E i, j \in DOMAIN tuPartyIds :
       /\ i < j
       /\ tuPartyIds[j] = tuRound.winner
       /\ tuIdeal[tuRound.winner] - tuDistrict[tuRound.winner]
            - tuRound.before[tuRound.winner]
          = tuIdeal[tuPartyIds[i]] - tuDistrict[tuPartyIds[i]]
            - tuRound.before[tuPartyIds[i]]
  /\ \E q \in Range(tuPartyIds) : tuDistrict[q] > 0 /\ tuTopUp[q] > 0

Distance(a, b, S) ==
  SumOver([q \in S |-> IF a[q] >= b[q] THEN a[q] - b[q] ELSE b[q] - a[q]], S)

\* The district seats sum to totalSeats - topUpSeats.
DistrictSeatsFit ==
  SumOver(tuDistrict, Range(tuPartyIds)) = tuTotal - tuTopUpSeats

\* C15: when the district seats sum to totalSeats - topUpSeats, every top-up
\* seat awarded brings the seats one closer to the Sainte-Lague ideal, so the
\* final distance is the district distance minus topUpSeats.
C15_TopUpMovesCloser ==
  (tuPc \in {"loop", "done"} /\ DistrictSeatsFit) =>
    /\ Distance([q \in Range(tuPartyIds) |-> tuDistrict[q] + tuTopUp[q]], tuIdeal,
                Range(tuPartyIds))
         = Distance(tuDistrict, tuIdeal, Range(tuPartyIds)) - tuI
    /\ tuResult.returned =>
         Distance(tuResult.finalSeatsByParty, tuResult.idealSeats, Range(tuPartyIds))
           <= Distance(tuDistrict, tuResult.idealSeats, Range(tuPartyIds))

C15_Witness ==
  /\ tuResult.returned
  /\ DistrictSeatsFit
  /\ Len(tuPartyIds) = 3
  /\ tuTopUpSeats = 2
  /\ Distance(tuResult.finalSeatsByParty, tuResult.idealSeats, Range(tuPartyIds)) > 0
  /\ Cardinality({q \in Range(tuPartyIds) : tuTopUp[q] > 0}) = 2

\* Some district count c >= 1 has c*min <= total <= c*max.
Feasible(total, min, max) ==
  \E c \in 1..(MaxPlanSeats + 1) :
    /\ FracCmp(FracMul(FracInt(c), min), FracInt(total)) <= 0
    /\ FracCmp(FracMul(FracInt(c), max), FracInt(total)) >= 0

\* The seat counts of a plan's districts, in order.
seatsOf(plan) == [d \in DOMAIN plan.districts |-> plan.districts[d].seats]

\* Every district of the plan has min <= seats <= max and the seats sum to total.
PlanFits(plan, total, min, max) ==
  /\ \A d \in DOMAIN plan.districts :
       /\ ~Below(plan.districts[d].seats, min)
       /\ ~Above(plan.districts[d].seats, max)
  /\ SumSeq(seatsOf(plan)) = total

WholeBounds == dpSafe.minDistrictSeats.d = 1 /\ dpSafe.maxDistrictSeats.d = 1
C16_FeasiblePlanFitsWholeBounds ==
  (dpPc = "done" /\ WholeBounds
     /\ Feasible(dpTotal, dpSafe.minDistrictSeats, dpSafe.maxDistrictSeats))
    => PlanFits(dpResult, dpTotal, dpSafe.minDistrictSeats, dpSafe.maxDistrictSeats)

\* The spec's example: total 11, target 5, min 3, max 7 gives two districts.
C16_ExampleReached ==
  /\ dpPc = "done"
  /\ dpTotal = 11
  /\ dpSafe.minDistrictSeats = FracInt(3)
  /\ dpSafe.maxDistrictSeats = FracInt(7)
  /\ dpSafe.districtSeatTarget = FracInt(5)
  /\ seatsOf(dpResult) = <<6, 5>>

\* C17: when no district count c satisfies c*min <= total <= c*max (total < min
\* included), buildDistrictPlan returns a plan of exactly one district whose
\* seat count is the full total.
C17_InfeasibleFallsBackToOne ==
  (dpPc = "done" /\ ~Feasible(dpTotal, dpSafe.minDistrictSeats, dpSafe.maxDistrictSeats))
    => /\ dpResult.stateCode = dpStateCode
       /\ seatsOf(dpResult) = <<dpTotal>>

\* The loop tried at least one count, none was feasible, and the plan is one
\* district with every seat.
C17_Witness ==
  /\ dpPc = "done"
  /\ ~Feasible(dpTotal, dpSafe.minDistrictSeats, dpSafe.maxDistrictSeats)
  /\ dpTried # <<>>
  /\ \A t \in DOMAIN dpTried : dpTried[t].parts.null
  /\ dpTotal > 1
  /\ seatsOf(dpResult) = <<dpTotal>>

\* n is x rounded to the nearest integer, halves upwards.
RoundsTo(x, n) ==
  /\ FracCmp(FracInt(2 * n - 1), FracMul(FracInt(2), x)) <= 0
  /\ FracCmp(FracMul(FracInt(2), x), FracInt(2 * n + 1)) < 0

\* The share of the invocation's settings, clamped to [0, 0.3].
ClampedTopUpShare ==
  FracMax(FracInt(0), FracMin(Frac(3, 10), hyArgs.settings.topUpSeatShare))

\* The callback of the latest state has just finished with a computed result.
Computed == hyPc = "map" /\ hyI > 0

\* C18: a jurisdiction result computed without an override plan has topUpSeats
\* = round(totalSeats * clamped topUpSeatShare) when top-up is enabled and 0
\* otherwise, districtSeats = totalSeats - topUpSeats, and the seat counts of
\* its district plan sum to districtSeats.
C18_SeatSplit ==
  (Computed /\ ~hyCheck.overridden) =>
    /\ IF hyArgs.settings.useTopUp
       THEN RoundsTo(FracMul(FracInt(hyCheck.fresh.totalSeats), ClampedTopUpShare),
                     hyCheck.fresh.topUpSeats)
       ELSE hyCheck.fresh.topUpSeats = 0
    /\ hyCheck.fresh.districtSeats = hyCheck.fresh.totalSeats - hyCheck.fresh.topUpSeats
    /\ SumSeq(seatsOf(hyCheck.fresh.districtPlan)) = hyCheck.fresh.districtSeats

\* Three seats with a share of 0.5 in the settings: 0.3 after the clamp, one
\* top-up seat and a plan for the two others.
C18_Witness ==
  /\ Computed
  /\ ~hyCheck.overridden
  /\ ~hyCheck.hit
  /\ hyArgs.settings.useTopUp
  /\ hyArgs.settings.topUpSeatShare = Frac(1, 2)
  /\ hyCheck.fresh.totalSeats = 3
  /\ hyCheck.fresh.topUpSeats = 1
  /\ seatsOf(hyCheck.fresh.districtPlan) = <<2>>

\* C19: a callback whose key is in stateCache returns the stored result at the
\* lookup, before anything is computed, and that result is the one computed
\* from the same arguments without the cache, whatever was stored before.
C19_CacheTransparent ==
  /\ (hyPc = "district" /\ hyCur.hit) =>
       /\ Len(hyOut) = hyI + 1
       /\ hyOut[hyI + 1] = hyCache[hyCur.key]
  /\ (Computed /\ hyCheck.hit) =>
       /\ hyCheck.returned = hyCheck.fresh
       /\ hyOut[hyI] = hyCheck.returned
       /\ hyCache[hyCheck.key] = hyCheck.returned

\* A hit on a result stored by an earlier invocation, after the same invocation
\* stored another jurisdiction, for a state whose shares are given as 1:1.
C19_Witness ==
  /\ Computed
  /\ hyCheck.hit
  /\ hyI = 2
  /\ Cardinality(DOMAIN hyCache) = 2
  /\ hyCheck.returned = hyCheck.fresh
  /\ hyCheck.returned.stateCode = 2
  /\ \E k \in DOMAIN hyCache : k.s = 1

\* A hit by an invocation whose arguments differ from those the result was
\* stored for: the share is 0.5 before the clamp.
C19_HitOnOtherArguments ==
  /\ Computed
  /\ hyCheck.hit
  /\ hyArgs.settings.topUpSeatShare = Frac(1, 2)

\* The electoral votes of the party an outcome reports as winner.
winnerVotes(outcome) ==
  IF outcome.winner = "D" THEN outcome.democrats ELSE outcome.republicans

\* C20: in computeHistoricalEcOutcomes, for every per-state metrics map and
\* every replayed year, majority = floor(totalElectoralVotes / 2) + 1 and the
\* party reported as winner has at least that many electoral votes.
C20_MajorityAndWinner ==
  \A k \in 1..Len(ecOut) :
    /\ ecOut[k].majority = (SumOver(ecMetrics, DOMAIN ecMetrics) \div 2) + 1
    /\ winnerVotes(ecOut[k]) >= ecOut[k].majority

\* What does hold of every outcome: the majority is floor(total / 2) + 1, the
\* two totals add up to the total of the map, a party that reaches the
\* majority is the one reported, and the reported winner falls short of the
\* majority only when the two parties have the same number of votes.
C20_WinnerUnlessTied ==
  \A k \in 1..Len(ecOut) :
    /\ ecOut[k].majority = (SumOver(ecMetrics, DOMAIN ecMetrics) \div 2) + 1
    /\ ecOut[k].democrats + ecOut[k].republicans = SumOver(ecMetrics, DOMAIN ecMetrics)
    /\ ecOut[k].democrats >= ecOut[k].majority => ecOut[k].winner = "D"
    /\ ecOut[k].republicans >= ecOut[k].majority => ecOut[k].winner = "R"
    /\ winnerVotes(ecOut[k]) < ecOut[k].majority
         => ecOut[k].democrats = ecOut[k].republicans

\* A replay has returned, for a map in which every jurisdiction has at least
\* three electoral votes, a year in which both parties have the same number
\* of votes and the republicans are reported as winner.
C20_TieReached ==
  /\ ecPc = "done"
  /\ \A abbr \in DOMAIN ecMetrics : ecMetrics[abbr] >= 3
  /\ \E k \in 1..Len(ecOut) :
       /\ ecOut[k].democrats = ecOut[k].republicans
       /\ ecOut[k].democrats > 0
       /\ ecOut[k].winner = "R"
       /\ ecOut[k].republicans < ecOut[k].majority

\* A replay has returned, for a map with both splitting jurisdictions whose
\* district votes went to both parties, a winner that has the majority.
C20_SplitReached ==
  /\ ecPc = "done"
  /\ {"ME", "NE"} \subseteq DOMAIN ecMetrics
  /\ ecMetrics["ME"] >= 4
  /\ ecMetrics["NE"] >= 5
  /\ \E k \in 1..Len(ecOut) : winnerVotes(ecOut[k]) >= ecOut[k].majority

\* The votes a jurisdiction gives in a year by the rule as stated: an ordinary
\* state all of them to its recorded winner; ME and NE two to the at-large
\* winner and the other votes - 2 by hamiltonAllocation with the share
\* districtDemWins / districtCount.
statedVotes(year, abbr, votes) ==
  LET demWon == abbr \in ELECTIONS[year].demWinners
  IN  IF abbr \in {"ME", "NE"}
      THEN LET split == ELECTIONS[year].splitStates[abbr]
               districts == hamiltonAllocationOf(votes - 2,
                              Frac(split.districtDemWins, split.districtCount))
           IN  [dem |-> (IF demWon THEN 2 ELSE 0) + districts.partyA,
                rep |-> (IF demWon THEN 0 ELSE 2) + districts.partyB]
      ELSE [dem |-> IF demWon THEN votes ELSE 0, rep |-> IF demWon THEN 0 ELSE votes]

\* The same rule, a split state with fewer than two votes giving what it has
\* to the at-large winner and dividing nothing.
statedVotesFromTwo(year, abbr, votes) ==
  IF abbr \in {"ME", "NE"} /\ votes < 2
  THEN LET demWon == abbr \in ELECTIONS[year].demWinners
       IN  [dem |-> IF demWon THEN votes ELSE 0, rep |-> IF demWon THEN 0 ELSE votes]
  ELSE statedVotes(year, abbr, votes)

RECURSIVE sumStated(_, _, _, _)
sumStated(rule(_, _, _), year, metricsByState, abbrs) ==
  IF abbrs = {} THEN [dem |-> 0, rep |-> 0]
  ELSE LET abbr == CHOOSE a \in abbrs : TRUE
           here == rule(year, abbr, metricsByState[abbr])
           rest == sumStated(rule, year, metricsByState, abbrs \ {abbr})
       IN  [dem |-> here.dem + rest.dem, rep |-> here.rep + rest.rep]

\* C21 as stated: in every replayed year the two totals are the sums, over
\* the jurisdictions of the map, of the votes the rule gives: an ordinary
\* state all its votes to its recorded winner, a split state (ME, NE) its
\* first 2 votes to the at-large winner and its remaining ecVotes - 2 votes
\* divided by hamiltonAllocation with share districtDemWins / districtCount.
\* A map of one jurisdiction makes this the rule for that jurisdiction.
C21_VotesAsStated ==
  \A k \in 1..Len(ecOut) :
    \E stated \in {sumStated(statedVotes, ecOut[k].year, ecMetrics, DOMAIN ecMetrics)} :
      /\ ecOut[k].democrats = stated.dem
      /\ ecOut[k].republicans = stated.rep

\* C21, amended: the same, a split state with fewer than 2 votes giving all
\* it has to the at-large winner.
C21_VotesFromTwo ==
  \A k \in 1..Len(ecOut) :
    \E stated \in {sumStated(statedVotesFromTwo, ecOut[k].year, ecMetrics, DOMAIN ecMetrics)} :
      /\ ecOut[k].democrats = stated.dem
      /\ ecOut[k].republicans = stated.rep

\* A replay has returned for a map of ME alone with 5 votes: 2016 gave the 2
\* at-large votes and 2 of the 3 district votes to the democrats.
C21_Witness ==
  /\ ecPc = "done"
  /\ DOMAIN ecMetrics = {"ME"}
  /\ ecMetrics["ME"] = 5
  /\ ecOut[1].democrats = 4
  /\ ecOut[1].republicans = 1

\* A replay has returned for a map of NE alone with 5 votes: none of its 3
\* district votes went to the democrats in 2016, one did in 2020.
C21_WitnessNE ==
  /\ ecPc = "done"
  /\ DOMAIN ecMetrics = {"NE"}
  /\ ecMetrics["NE"] = 5
  /\ ecOut[1].democrats = 0
  /\ ecOut[2].democrats = 1
  /\ ecOut[2].republicans = 4

\* The share of a party as the call reads it: 0 when missing.
givenShare(input, p) == IF p \in DOMAIN input THEN input[p] ELSE FracInt(0)

\* The same with a negative share taken as 0.
countedShare(input, p) == FracMax(FracInt(0), givenShare(input, p))

\* The sum of x[p] over the listed parties.
sumListed(x, partyIds) == FracSumSeq([k \in DOMAIN partyIds |-> x[partyIds[k]]])

\* C22: for a non-empty party list normalizeShares returns non-negative
\* shares over exactly the listed parties that sum to 1; when every listed
\* party's input share is missing, zero or negative, each gets 1/|partyIds|;
\* otherwise each gets its share, a negative one counted as 0, over the sum
\* of the shares so counted.
C22_NormalizedShares ==
  (nsPc = "done" /\ nsPartyIds # <<>>) =>
    /\ DOMAIN nsResult = Range(nsPartyIds)
    /\ \A p \in Range(nsPartyIds) : FracCmp(nsResult[p], FracInt(0)) >= 0
    /\ sumListed(nsResult, nsPartyIds) = FracInt(1)
    /\ \E counted \in {[p \in Range(nsPartyIds) |-> countedShare(nsInput, p)]} :
         IF \A p \in Range(nsPartyIds) : FracCmp(givenShare(nsInput, p), FracInt(0)) <= 0
         THEN \A p \in Range(nsPartyIds) : nsResult[p] = Frac(1, Len(nsPartyIds))
         ELSE \A p \in Range(nsPartyIds) :
                FracMul(nsResult[p], sumListed(counted, nsPartyIds)) = counted[p]

\* A call has returned for three listed parties, one with a negative share,
\* one missing from the map and one with a positive share, which gets all.
C22_Witness ==
  /\ nsPc = "done"
  /\ Len(nsPartyIds) = 3
  /\ \E p, q, r \in Range(nsPartyIds) :
       /\ p \in DOMAIN nsInput /\ FracCmp(nsInput[p], FracInt(0)) < 0
       /\ q \notin DOMAIN nsInput
       /\ r \in DOMAIN nsInput /\ FracCmp(nsInput[r], FracInt(0)) > 0
       /\ nsResult[p] = FracInt(0)
       /\ nsResult[r] = FracInt(1)

\* A call has returned the even split for two listed parties, one negative
\* and one missing, while a party that is not listed has a positive share.
C22_EvenSplitReached ==
  /\ nsPc = "done"
  /\ Len(nsPartyIds) = 2
  /\ \E p, q \in Range(nsPartyIds) :
       /\ p \in DOMAIN nsInput /\ FracCmp(nsInput[p], FracInt(0)) < 0
       /\ q \notin DOMAIN nsInput
  /\ \E other \in DOMAIN nsInput \ Range(nsPartyIds) : FracCmp(nsInput[other], FracInt(0)) > 0
  /\ \A p \in Range(nsPartyIds) : nsResult[p] = Frac(1, 2)

\* Square roots compare as their arguments do.
sqrtLess(a, b) == FracCmp(a.sqrt, b.sqrt) < 0

\* |seatShare_p - voteShare_p| of the normalized vectors, for seat vector i.
deviation(i, p) ==
  FracAbs(FracSub(normalizeNumbers(giSeats[i], giPartyIds)[p],
                  normalizeNumbers(giVotes, giPartyIds)[p]))

\* C23: gallagherIndex returns 0 when the normalized seat shares equal the
\* normalized vote shares for every party; and for one vote vector, a seat
\* vector whose every |seatShare_p - voteShare_p| is larger than that of
\* another seat vector has a strictly larger index.
C23_ZeroAndIncreasing ==
  giPc = "done" =>
    /\ \A i \in 1..2 :
         (\A p \in Range(giPartyIds) : deviation(i, p) = FracInt(0))
           => giIndex[i] = MathSqrt(FracInt(0))
    /\ ( /\ giPartyIds # <<>>
         /\ \A p \in Range(giPartyIds) : FracCmp(deviation(1, p), deviation(2, p)) < 0 )
         => sqrtLess(giIndex[1], giIndex[2])

\* The same with the deviations under the second seat vector at least those
\* under the first, one of them larger.
C23_IncreasingInEach ==
  ( /\ giPc = "done"
    /\ \A p \in Range(giPartyIds) : FracCmp(deviation(1, p), deviation(2, p)) <= 0
    /\ \E p \in Range(giPartyIds) : FracCmp(deviation(1, p), deviation(2, p)) < 0 )
    => sqrtLess(giIndex[1], giIndex[2])

\* A call has returned for three parties: the first seat vector is off the
\* votes for every party, the second further off for every party, and the
\* index of the first is above 0.
C23_Witness ==
  /\ giPc = "done"
  /\ Len(giPartyIds) = 3
  /\ \A p \in Range(giPartyIds) :
       /\ FracCmp(FracInt(0), deviation(1, p)) < 0
       /\ FracCmp(deviation(1, p), deviation(2, p)) < 0
  /\ sqrtLess(MathSqrt(FracInt(0)), giIndex[1])
  /\ sqrtLess(giIndex[1], giIndex[2])

\* A call has returned index 0 for a seat vector that differs from the vote
\* vector as given and equals it once both are normalized.
C23_ZeroReached ==
  /\ giPc = "done"
  /\ Len(giPartyIds) >= 2
  /\ giSeats[1] # giVotes
  /\ \E p \in Range(giPartyIds) : FracCmp(FracInt(0), giVotes[p]) < 0
  /\ \A p \in Range(giPartyIds) : deviation(1, p) = FracInt(0)
  /\ giIndex[1] = MathSqrt(FracInt(0))

\* The priority of a state at a seat count: P / sqrt(n(n+1)).
priorityAt(seats, s) == computePriority(apPop[s], seats[s])

\* A state whose priority is maximal among all states at the seat counts
\* given, the earliest code among equals.
topState(seats) ==
  CHOOSE s \in DOMAIN seats :
    \A t \in DOMAIN seats \ {s} :
      \/ PriorityDiff(priorityAt(seats, s), priorityAt(seats, t)) > 0
      \/ PriorityDiff(priorityAt(seats, s), priorityAt(seats, t)) = 0 /\ s < t

\* The reference allocation: from the seat counts given, one seat at a time
\* to the state of maximal priority, awards times.
RECURSIVE greedyFrom(_, _)
greedyFrom(seats, awards) ==
  IF awards = 0 \/ DOMAIN seats = {} THEN seats
  ELSE greedyFrom([seats EXCEPT ![topState(seats)] = @ + 1], awards - 1)

\* The seat counts before the latest award.
beforeAward == [apSeats EXCEPT ![apAward.state] = @ - 1]

\* C24: apportion starts from 1 seat per state and makes total - stateCount
\* awards, each to a state whose priority P / sqrt(n(n+1)) at its current
\* seat count n is maximal among all states at that moment; after every
\* award the seats are those of the step-by-step greedy allocation.
C24_GreedyAwards ==
  /\ apPc = "push" => \A s \in DOMAIN apSeats : apSeats[s] = 1
  /\ (apPc \in {"award", "return", "done"} /\ apI >= 1) =>
       \A t \in DOMAIN apSeats :
         PriorityDiff(priorityAt(beforeAward, apAward.state), priorityAt(beforeAward, t)) >= 0
  /\ apPc \in {"award", "return", "done"} =>
       apSeats = greedyFrom([s \in DOMAIN apSeats |-> 1], apI)
  /\ (apPc = "done" /\ apStates # <<>>) =>
       /\ apI = apTotal - Len(apStates)
       /\ apResult.seats = greedyFrom([s \in DOMAIN apSeats |-> 1], apTotal - Len(apStates))

\* An allocation has returned for three states of different populations,
\* hence without a tie, after three awards that went to two states.
C24_Witness ==
  /\ apPc = "done"
  /\ Len(apStates) = 3
  /\ \A s, t \in DOMAIN apPop : s # t => apPop[s] # apPop[t]
  /\ apI = 3
  /\ Cardinality({s \in DOMAIN apSeats : apResult.seats[s] >= 2}) = 2

\* The ids of a list are in ascending order.
ascendingIds(ids) == \A i, j \in DOMAIN ids : i < j => ids[i] < ids[j]

\* A round in which more candidates are active than seats remain and no
\* active candidate reaches the quota removes exactly the active candidate
\* with the lowest tally, the smallest id among equals, elects nobody and
\* changes no ballot weight.
eliminationRound ==
  \E totals \in {tally(stvWeighted, stvActive)} :
    ( /\ Cardinality(stvActive) > stvSeats - Len(stvElected)
      /\ \A c \in stvActive : FracCmp(totals[c], FracInt(stvQuota)) < 0 )
    => /\ \E low \in stvActive :
            /\ \A c \in stvActive \ {low} :
                 \/ FracCmp(totals[low], totals[c]) < 0
                 \/ FracCmp(totals[low], totals[c]) = 0 /\ low < c
            /\ stvActive' = stvActive \ {low}
       /\ stvElected' = stvElected
       /\ \A i \in DOMAIN stvWeighted : stvWeighted'[i].weight = stvWeighted[i].weight

\* A round in which at most as many candidates are active as seats remain
\* elects all of them in ascending id order and ends the count.
fillRound ==
  Cardinality(stvActive) <= stvSeats - Len(stvElected)
    => /\ \E electedNow \in {SubSeq(stvElected', Len(stvElected) + 1, Len(stvElected'))} :
            /\ SubSeq(stvElected', 1, Len(stvElected)) = stvElected
            /\ Range(electedNow) = stvActive
            /\ Len(electedNow) = Cardinality(stvActive)
            /\ ascendingIds(electedNow)
       /\ stvPc' = "done"

\* C25: in a round where more candidates are active than seats remain and no
\* active candidate reaches the quota, exactly the active candidate with the
\* lowest tally (ties broken by ascending id) is removed from the active set,
\* nobody is elected and no ballot weight changes; and when the number of
\* active candidates is at most the number of seats remaining, all active
\* candidates are elected in ascending id order and the count stops.
C25_EliminateOrFill ==
  [][(stvPc = "loop" /\ stvRounds' = stvRounds + 1) => (eliminationRound /\ fillRound)]_vars

\* A round has removed the smaller id of two candidates tied on the lowest
\* tally, each of them with votes.
C25_Witness ==
  /\ stvRound.kind = "eliminate"
  /\ Len(stvBallots) >= 2
  /\ \E low \in stvRound.removed :
       /\ FracCmp(stvRound.totals[low], FracInt(0)) > 0
       /\ \E c \in DOMAIN stvRound.totals :
            c > low /\ FracCmp(stvRound.totals[c], stvRound.totals[low]) = 0

\* A count has ended by filling two seats at once, after an elimination.
C25_FillReached ==
  /\ stvPc = "done"
  /\ stvRound.kind = "fill"
  /\ Len(stvRound.electedNow) = 2
  /\ stvEliminated # {}

\* The balanced partition of total into count parts, largest first: the
\* remainder of total / count as parts of one seat more than the others.
balancedParts(total, count) ==
  arrayOf(total % count, (total \div count) + 1)
    \o arrayOf(count - (total % count), total \div count)

\* The counts whose balanced partition keeps every part within the clamped
\* bounds.
feasibleCounts ==
  {c \in 1..(MaxPlanSeats + 1) :
     \A k \in 1..c :
       /\ ~Below(balancedParts(dpTotal, c)[k], dpSafe.minDistrictSeats)
       /\ ~Above(balancedParts(dpTotal, c)[k], dpSafe.maxDistrictSeats)}

\* score = 10 * variance + sum of |part - target| of the balanced partition.
scoreOfCount(c) == scorePlan(balancedParts(dpTotal, c), dpSafe.districtSeatTarget)

\* C26: among all feasible district counts, the seat counts returned are the
\* balanced partition (parts differing by at most 1) of the count with the
\* least score = 10 * variance + sum of |part - target|, the smaller count
\* when two counts have the same score.
C26_LeastScore ==
  (dpPc = "done" /\ feasibleCounts # {}) =>
    \E c \in feasibleCounts :
      /\ seatsOf(dpResult) = balancedParts(dpTotal, c)
      /\ \A k \in 1..c : seatsOf(dpResult)[1] - seatsOf(dpResult)[k] \in {0, 1}
      /\ \A d \in feasibleCounts \ {c} :
           \/ FracCmp(scoreOfCount(c), scoreOfCount(d)) < 0
           \/ FracCmp(scoreOfCount(c), scoreOfCount(d)) = 0 /\ c < d

\* A plan has been returned whose count shares the least score with a larger
\* feasible count.
C26_Witness ==
  /\ dpPc = "done"
  /\ \E c \in feasibleCounts :
       /\ seatsOf(dpResult) = balancedParts(dpTotal, c)
       /\ \E d \in feasibleCounts : d > c /\ FracCmp(scoreOfCount(c), scoreOfCount(d)) = 0

\* A plan of unequal parts has been returned whose count scores less than a
\* smaller and than a larger feasible count.
C26_InnerCountReached ==
  /\ dpPc = "done"
  /\ \E c \in feasibleCounts :
       /\ seatsOf(dpResult) = balancedParts(dpTotal, c)
       /\ seatsOf(dpResult)[1] # seatsOf(dpResult)[c]
       /\ \E d \in feasibleCounts : d > c /\ FracCmp(scoreOfCount(c), scoreOfCount(d)) < 0
       /\ \E d \in feasibleCounts : d < c /\ FracCmp(scoreOfCount(c), scoreOfCount(d)) < 0

\* The seats a computed result hands out over the parties of the invocation.
seatsHandedOut(result) == SumOver(result.finalSeatsByParty, Range(hyArgs.parties))

C27_SeatsAllocatedWhenPositive ==
  (Computed /\ ~hyCheck.overridden) =>
    seatsHandedOut(hyCheck.fresh) = Max(1, hyCheck.fresh.totalSeats)

\* A jurisdiction missing from the seat map has been computed: no seats, a
\* plan of one district without seats, and one seat handed out.
C27_MissingReached ==
  /\ Computed
  /\ ~hyCheck.overridden
  /\ hyCheck.fresh.stateCode \notin DOMAIN hyArgs.stateSeats
  /\ hyCheck.fresh.totalSeats = 0
  /\ seatsOf(hyCheck.fresh.districtPlan) = <<0>>
  /\ seatsHandedOut(hyCheck.fresh) = 1

\* Three seats with top-up: two from the district and one top-up seat.
C27_TopUpReached ==
  /\ Computed
  /\ ~hyCheck.overridden
  /\ hyArgs.settings.useTopUp
  /\ hyCheck.fresh.totalSeats = 3
  /\ hyCheck.fresh.topUpSeats = 1
  /\ seatsHandedOut(hyCheck.fresh) = 3

\* The weight on the ballots that counted for candidate c when the round
\* began, as the round leaves them.
carriedOn(c) ==
  sumWeights([i \in DOMAIN stvWeighted |->
                IF activeChoice(stvWeighted[i], stvActive) = c
                THEN stvWeighted'[i].weight ELSE FracInt(0)], 1, Len(stvWeighted))

\* The candidates elected by reaching the quota: all the elected but those of
\* a closing round that filled the seats left.
electedByQuota ==
  IF stvRound.kind = "fill" THEN Len(stvElected) - Len(stvRound.electedNow)
  ELSE Len(stvElected)

\* A round that elects leaves tally - quota on the ballots of each candidate
\* it elects.
surplusCarried ==
  stvRound'.kind = "elect" =>
    \A c \in Range(stvRound'.electedNow) :
      FracCmp(carriedOn(c), FracSub(stvRound'.totals[c], FracInt(stvQuota))) = 0

\* What transferSurplus does: tally - quota when the tally is above the quota,
\* and the whole tally when it is the quota.
surplusOrAllCarried ==
  stvRound'.kind = "elect" =>
    \A c \in Range(stvRound'.electedNow) :
      FracCmp(carriedOn(c),
              IF FracCmp(stvRound'.totals[c], FracInt(stvQuota)) > 0
              THEN FracSub(stvRound'.totals[c], FracInt(stvQuota))
              ELSE stvRound'.totals[c]) = 0

\* The weight of all ballots is at most the weight cast less one quota for
\* each candidate elected by quota.
weightWithinBound ==
  stvPc \in {"loop", "done"} =>
    FracCmp(validVotes(stvWeighted, 1),
            FracSub(validVotes(stvBallots, 1), FracInt(stvQuota * electedByQuota))) <= 0

\* The same with a quota taken off only for the candidates elected above it:
\* the weight of all ballots never grows beyond the weight cast.
weightWithinCast ==
  stvPc \in {"loop", "done"} =>
    FracCmp(validVotes(stvWeighted, 1), validVotes(stvBallots, 1)) <= 0

\* The candidates at or above quota in the round are no more than the seats
\* that were open.
atQuotaWithinOpen ==
  stvRound.kind = "elect" =>
    Cardinality({c \in DOMAIN stvRound.totals :
                   FracCmp(stvRound.totals[c], FracInt(stvQuota)) >= 0}) <= stvRound.remaining

C28_SurplusOrAllCarried ==
  /\ [][(stvPc = "loop" /\ stvRounds' = stvRounds + 1) => surplusOrAllCarried]_vars
  /\ []weightWithinCast
  /\ []atQuotaWithinOpen

\* A candidate elected on exactly the quota whose ballots, at full weight,
\* then count for another candidate of a seat still open.
C28_ExactQuotaReached ==
  /\ stvRound.kind = "elect"
  /\ stvPc = "loop"
  /\ \E c \in Range(stvRound.electedNow) :
       /\ FracCmp(stvRound.totals[c], FracInt(stvQuota)) = 0
       /\ \E i \in DOMAIN stvWeighted :
            /\ stvWeighted[i].ranking[stvWeighted[i].index + 1] = c
            /\ stvWeighted[i].weight = stvBallots[i].weight
            /\ activeChoice(stvWeighted[i], stvActive) # NoCandidate

\* A candidate elected above the quota whose ballots go on at a lower weight.
C28_SurplusReached ==
  /\ stvRound.kind = "elect"
  /\ stvPc = "loop"
  /\ \E c \in Range(stvRound.electedNow) :
       /\ FracCmp(stvRound.totals[c], FracInt(stvQuota)) > 0
       /\ \E i \in DOMAIN stvWeighted :
            /\ stvWeighted[i].index > 0
            /\ stvWeighted[i].ranking[stvWeighted[i].index] = c
            /\ FracCmp(stvWeighted[i].weight, FracInt(0)) > 0
            /\ FracCmp(stvWeighted[i].weight, stvBallots[i].weight) < 0

\* Two seats, a ballot of weight 2 for 11, 12, 21 and one of weight 1 for 21:
\* the quota is 2, 11 is elected on it, and the same ballot then elects 12 at
\* its full weight.
C28_CountedTwiceReached ==
  /\ stvPc = "done"
  /\ stvSeats = 2
  /\ Len(stvBallots) = 2
  /\ stvBallots[1] = [ranking |-> <<11, 12, 21>>, weight |-> FracInt(2)]
  /\ stvBallots[2].ranking[1] = 21
  /\ stvBallots[2].weight = FracInt(1)
  /\ stvQuota = 2
  /\ stvRound.kind = "elect"
  /\ stvRound.totals[12] = FracInt(2)
  /\ stvElected = <<11, 12>>

\* The district counts and wins allocateSplitDistrictVotes is tried on: those
\* recorded, no district at all, and more wins than districts.
SplitDistrictCounts == 0..3

\* allocateSplitDistrictVotes hands out the district votes it is given, none
\* of them when there is none, all to the republicans without districts.
splitVotesConserved ==
  \A districtVotes \in 0..MaxEcVotes, districtDemWins \in SplitDistrictCounts,
     districtCount \in SplitDistrictCounts :
    \E given \in {allocateSplitDistrictVotes(districtVotes, districtDemWins, districtCount)} :
      /\ given.dem >= 0
      /\ given.rep >= 0
      /\ given.dem + given.rep = districtVotes
      /\ districtCount = 0 => given.dem = 0

\* C29: the historical replay conserves electoral votes: for every per-state
\* metrics map with non-negative whole ecVotes and every replayed year,
\* democrats + republicans equals the sum of all states' ecVotes, split states
\* with fewer than 2 votes included; and allocateSplitDistrictVotes conserves
\* the district votes for any number of districts, 0 included.
C29_VotesConserved ==
  /\ \A k \in 1..Len(ecOut) :
       /\ ecOut[k].democrats >= 0
       /\ ecOut[k].republicans >= 0
       /\ ecOut[k].democrats + ecOut[k].republicans = ecTotal
       /\ ecTotal = SumOver(ecMetrics, DOMAIN ecMetrics)
  /\ splitVotesConserved

\* A replay has returned for a map in which one split state has a single vote
\* and the other none, next to a state with votes: the single vote went to the
\* at-large winner and every year adds up to the total.
C29_Witness ==
  /\ ecPc = "done"
  /\ {"ME", "NE"} \subseteq DOMAIN ecMetrics
  /\ ecMetrics["ME"] = 1
  /\ ecMetrics["NE"] = 0
  /\ \E abbr \in DOMAIN ecMetrics \ {"ME", "NE"} : ecMetrics[abbr] > 0
  /\ \A k \in 1..Len(ReplayedYears) :
       ecOut[k].democrats + ecOut[k].republicans = ecTotal

\* apportion, lines 143-147: the heap after the first k states are pushed.
RECURSIVE pushedStates(_, _, _)
pushedStates(states, populationsByState, k) ==
  IF k = 0 THEN <<>>
  ELSE heapPush(pushedStates(states, populationsByState, k - 1),
                [state |-> states[k],
                 priority |-> computePriority(populationsByState[states[k]], 1)])

\* apportion, lines 149-158: the seats after the for loop has run remaining
\* times, or has found the heap empty.
RECURSIVE awardedSeats(_, _, _, _)
awardedSeats(populationsByState, seats, heap, remaining) ==
  IF remaining <= 0 \/ Len(heap) = 0 THEN seats
  ELSE LET entry == heap[1]
           next == seats[entry.state] + 1
       IN  awardedSeats(populationsByState, [seats EXCEPT ![entry.state] = next],
                        heapPush(heapPopRest(heap),
                                 [state |-> entry.state,
                                  priority |-> computePriority(populationsByState[entry.state],
                                                               next)]),
                        remaining - 1)

\* apportion, lines 128-161, as one value, for a total that is not below the
\* number of states.
apportionOf(states, populationsByState, totalSeats) ==
  awardedSeats(populationsByState, arrayOf(Len(states), 1),
               pushedStates(states, populationsByState, Len(states)),
               totalSeats - Len(states))

\* The states that have one seat more in larger than in smaller.
gainers(smaller, larger) == {s \in DOMAIN smaller : larger[s] = smaller[s] + 1}

\* larger is smaller with the seat count of exactly one state increased by 1.
oneSeatMore(smaller, larger) ==
  /\ DOMAIN larger = DOMAIN smaller
  /\ Cardinality(gainers(smaller, larger)) = 1
  /\ \A s \in DOMAIN smaller \ gainers(smaller, larger) : larger[s] = smaller[s]

\* The allocation returned is the one of apportionOf, and the allocation for
\* one seat more is the same with one state's count increased by 1.
houseMonotone ==
  \E larger \in {apportionOf(apStates, apPop, apTotal + 1)} :
    /\ apResult.seats = apportionOf(apStates, apPop, apTotal)
    /\ oneSeatMore(apResult.seats, larger)

\* C30 as stated: apportionment is house-monotone: for every population map
\* and every total >= the number of states, apportion(populations, total + 1)
\* equals apportion(populations, total) with exactly one state's seat count
\* increased by 1, so no state loses a seat when the house grows.
C30_HouseMonotoneEveryMap ==
  apPc = "done" => houseMonotone

\* C30 amended: the same for every non-empty population map.
C30_HouseMonotone ==
  (apPc = "done" /\ Len(apStates) >= 1) => houseMonotone

\* An allocation has returned for three states of different populations and
\* at least two seats beyond one each; a house of one seat more gives its
\* extra seat to another state than the one that got the last seat here.
C30_Witness ==
  /\ apPc = "done"
  /\ Len(apStates) = 3
  /\ \A s, t \in DOMAIN apPop : s # t => apPop[s] # apPop[t]
  /\ apTotal >= Len(apStates) + 2
  /\ houseMonotone
  /\ apAward.state \notin gainers(apResult.seats, apportionOf(apStates, apPop, apTotal + 1))

\* An allocation has returned for the empty population map: the empty
\* allocation, which is also the allocation of every larger house.
C30_EmptyMapReached ==
  /\ apPc = "done"
  /\ apStates = <<>>
  /\ apResult.seats = <<>>
  /\ apportionOf(apStates, apPop, apTotal + 1) = <<>>
====
